---- MODULE Spec2Model ----
(***************************************************************************)
(* retroterm: browser <-> telnet/SSH bridge for bulletin-board systems.    *)
(*                                                                         *)
(* The module models                                                       *)
(*   - the pure byte-stream functions (normalizeCSISGRAny, the             *)
(*     ANSIEnhancedProcessor, processTelnetData, the ZMODEM signature      *)
(*     search) as operators over sequences of bytes (0..255), and          *)
(*   - one browser session (Client) with its goroutines (browser read      *)
(*     loop, dial/read loop, asynchronous disconnect, rz monitor,          *)
(*     watchdog) as a state machine whose steps are the lock               *)
(*     acquisitions and I/O operations of the Go code.                     *)
(*                                                                         *)
(* The specifications share the variables:                                 *)
(*   SpecNorm     applies normalizeCSISGRAny once and twice to an input,   *)
(*   SpecAnsi     feeds a byte stream to ProcessANSIData in chunks,        *)
(*   SpecTelnet   gives a chunk to processTelnetData, whole or as two      *)
(*                reads, and sends bytes through the IAC escaping of rz's  *)
(*                output and back,                                         *)
(*   SpecZmodem   gives chunks to ProcessData of an idle receiver,         *)
(*   SpecLegacy   gives chunks to the PETSCII/ATASCII conversion stage,    *)
(*   SpecPreamble gives chunks to the legacy preamble buffering,           *)
(*   SpecConnect  runs connectTelnet and readTelnet for several connects,  *)
(*   SpecResize   handles resize and setCharset messages around connects,  *)
(*   SpecRace     runs ProcessData, monitorRz and Cancel of one receiver,  *)
(*   SpecGrace    runs readTelnet's suppression window against a clock,    *)
(*   SpecKeepalive runs the keepalive goroutine against disconnect,        *)
(*   Spec         runs the session, FairSpec with fair scheduling.         *)
(* Sequences are 1-based here, slices are 0-based in the Go code.          *)
(***************************************************************************)
EXTENDS Integers, Sequences, FiniteSets, TLC

VARIABLES
    \* ---- normalizeCSISGRAny harness (SpecNorm)
    nIn,        \* the input byte sequence
    nOut,       \* normalizeCSISGRAny(nIn)
    nOut2,      \* normalizeCSISGRAny(nOut)
    nPhase,     \* "in" | "once" | "twice"
    \* ---- ANSIEnhancedProcessor harness (SpecAnsi)
    aStream,    \* the whole input stream
    aPos,       \* number of bytes of aStream already fed
    aProc,      \* the processor: [inSequence, sequenceBuffer]
    aOut,       \* concatenation of the outputs returned so far
    aLast,      \* what the last call returned
    aLastIn,    \* the chunk the last call was given
    aWhole,     \* output of a fresh processor given aStream as one chunk
    aWholeDone  \* whether aWhole has been computed

nvars == <<nIn, nOut, nOut2, nPhase>>

avars == <<aStream, aPos, aProc, aOut, aLast, aLastIn, aWhole, aWholeDone>>

----------------------------------------------------------------------------
(* Bytes                                                                   *)

BEL     == 7
FF      == 12
SO      == 14
SI      == 15
ESC     == 27
SPACE   == 32
LPAREN  == 40
RPAREN  == 41
STAR    == 42
PLUS    == 43
DIGIT0  == 48
DIGIT1  == 49
DIGIT2  == 50
DIGIT3  == 51
DIGIT7  == 55
DIGIT8  == 56
DIGIT9  == 57
SEMI    == 59
QMARK   == 63
FinalLo == 64
UpperC  == 67
UpperD  == 68
UpperE  == 69
UpperH  == 72
UpperJ  == 74
UpperK  == 75
UpperM  == 77
UpperP  == 80
LBRACK  == 91
BSLASH  == 92
RBRACK  == 93
LowerC  == 99
LowerJ  == 106
LowerM  == 109
FinalHi == 126
DEL     == 127
C1DCS   == 144
C1CSI   == 155
C1ST    == 156
C1OSC   == 157

----------------------------------------------------------------------------
(* Sequence helpers                                                        *)

\* All sequences over S of length 0..n.
SeqsUpTo(S, n) == UNION {[1..k -> S] : k \in 0..n}

\* s[from..] (empty when from is past the end).
Tail_(s, from) == SubSeq(s, from, Len(s))

\* bytes.Equal
BytesEqual(a, b) == a = b

\* bytes.Contains(s, pat)
Contains(s, pat) ==
    \E k \in 1..(Len(s) - Len(pat) + 1) : SubSeq(s, k, k + Len(pat) - 1) = pat

\* a is a suffix of s
IsSuffix(a, s) ==
    Len(a) <= Len(s) /\ SubSeq(s, Len(s) - Len(a) + 1, Len(s)) = a

\* a is a subsequence of s (the bytes of a appear in s, in order).
RECURSIVE IsSubseqFrom(_, _, _, _)
IsSubseqFrom(a, i, s, j) ==
    IF i > Len(a) THEN TRUE
    ELSE IF j > Len(s) THEN FALSE
    ELSE IF a[i] = s[j] THEN IsSubseqFrom(a, i + 1, s, j + 1)
    ELSE IsSubseqFrom(a, i, s, j + 1)

IsSubsequence(a, s) == IsSubseqFrom(a, 1, s, 1)

----------------------------------------------------------------------------
(* normalizeCSISGRAny                                                      *)

\* A CSI final byte: c >= 0x40 && c <= 0x7E.
IsFinalByte(c) == c >= FinalLo /\ c <= FinalHi

\* d == ';' || (d >= '0' && d <= '9')
IsParamByte(d) == d = SEMI \/ (d >= DIGIT0 /\ d <= DIGIT9)

\* The validity loops: every byte of in[from..to] is a digit or a semicolon.
ParamsValid(in, from, to) == \A k \in from..to : IsParamByte(in[k])

\* Smallest j >= from with in[j] a final byte, 0 when there is none.
FirstFinalFrom(in, from) ==
    LET S == {j \in from..Len(in) : IsFinalByte(in[j])}
    IN  IF S = {} THEN 0 ELSE CHOOSE j \in S : \A k \in S : j <= k

\* A final byte rewritten by toggling its case whenever the parameters are
\* valid (a slip for the one-way fix below).
normFinalToggleCase(c, isPrivate, valid) ==
    IF isPrivate \/ ~valid THEN c
    ELSE IF c = UpperM THEN LowerM
    ELSE IF c = LowerM THEN UpperM
    ELSE IF c = LowerJ THEN UpperJ
    ELSE IF c = UpperJ THEN LowerJ
    ELSE c

\* Only the 'M' branch, the 'j' branch left out.
normFinalOnlyM(c, isPrivate, valid) ==
    IF ~isPrivate /\ c = UpperM /\ valid THEN LowerM ELSE c

\* The rewrite applied to every sequence, whatever stands before the final
\* byte.
normFinalAnyParams(c, isPrivate, valid) ==
    IF c = UpperM THEN LowerM
    ELSE IF c = LowerJ THEN UpperJ
    ELSE c

\* The byte emitted for final byte c: 'M' -> 'm' and 'j' -> 'J' for a
\* non-private sequence whose parameters are digits/semicolons only.
normFinal(c, isPrivate, valid) ==
    IF ~isPrivate
    THEN IF c = UpperM
         THEN (IF valid THEN LowerM ELSE c)
         ELSE IF c = LowerJ
              THEN (IF valid THEN UpperJ ELSE c)
              ELSE c
    ELSE c

\* The main loop, i the index of the byte looked at, out the output so far.
RECURSIVE normScan(_, _, _)
normScan(in, i, out) ==
    IF i > Len(in) THEN out
    ELSE IF in[i] = ESC /\ i + 1 <= Len(in) /\ in[i + 1] = LBRACK
    THEN LET j == FirstFinalFrom(in, i + 2)
         IN  IF j = 0
             THEN \* incomplete CSI: copy the rest as-is and stop
                  out \o <<ESC, LBRACK>> \o Tail_(in, i + 2)
             ELSE LET isPrivate == i + 2 <= Len(in) /\ in[i + 2] = QMARK
                      valid     == ParamsValid(in, i + 2, j - 1)
                      c         == normFinal(in[j], isPrivate, valid)
                  IN  normScan(in, j + 1,
                               out \o <<ESC, LBRACK>> \o SubSeq(in, i + 2, j - 1)
                                   \o <<c>>)
    ELSE normScan(in, i + 1, Append(out, in[i]))

normalizeCSISGRAny(in) == IF Len(in) < 3 THEN in ELSE normScan(in, 1, <<>>)

----------------------------------------------------------------------------
(* ANSIEnhancedProcessor                                                   *)

MaxSequenceLen == 100

NewANSIEnhancedProcessor == [inSequence |-> FALSE, sequenceBuffer |-> <<>>]

isSequenceComplete(buf) ==
    IF Len(buf) < 2 THEN FALSE
    ELSE LET second == buf[2]
             overflow == Len(buf) > MaxSequenceLen
         IN  IF second = LBRACK
             THEN (\E i \in 3..Len(buf) : IsFinalByte(buf[i])) \/ overflow
             ELSE IF second = RBRACK
             THEN (\E i \in 3..Len(buf) :
                      \/ buf[i] = BEL
                      \/ (buf[i - 1] = ESC /\ buf[i] = BSLASH)) \/ overflow
             ELSE IF second \in {LPAREN, RPAREN, STAR, PLUS}
             THEN Len(buf) >= 3
             ELSE IF second \in {DIGIT7, DIGIT8}
             THEN TRUE
             ELSE IF second \in {LowerC, UpperD, UpperM, UpperE}
             THEN TRUE
             ELSE (second >= FinalLo /\ second <= DEL) \/ overflow

processCompleteSequence(buf) ==
    IF BytesEqual(buf, <<ESC, LBRACK, UpperJ>>) THEN <<ESC, LBRACK, DIGIT0, UpperJ>>
    ELSE IF BytesEqual(buf, <<ESC, LBRACK, UpperK>>) THEN <<ESC, LBRACK, DIGIT0, UpperK>>
    ELSE IF BytesEqual(buf, <<ESC, LBRACK, LowerM>>) THEN <<ESC, LBRACK, DIGIT0, LowerM>>
    ELSE IF Len(buf) >= 4 /\ buf[1] = ESC /\ buf[2] = LBRACK
    THEN IF \/ BytesEqual(buf, <<ESC, LBRACK, DIGIT2, UpperJ>>)
            \/ BytesEqual(buf, <<ESC, LBRACK, DIGIT0, SEMI, DIGIT2, UpperJ>>)
         THEN <<ESC, LBRACK, DIGIT2, UpperJ, ESC, LBRACK, UpperH>>
         ELSE IF Contains(buf, <<DIGIT2, UpperJ>>)
         THEN buf \o <<ESC, LBRACK, UpperH>>
         ELSE buf
    ELSE buf

\* One iteration of the loop of ProcessANSIData on byte b.
\* st = [p |-> processor, result |-> output so far].
ansiByte(st, b) ==
    LET p == st.p
        r == st.result
        start(x) == [p |-> [inSequence |-> TRUE, sequenceBuffer |-> <<ESC, x>>],
                     result |-> r]
    IN  IF b = C1CSI THEN start(LBRACK)
        ELSE IF b = C1OSC THEN start(RBRACK)
        ELSE IF b = C1DCS THEN start(UpperP)
        ELSE IF b = C1ST
        THEN IF p.inSequence
             THEN [p |-> [inSequence |-> FALSE, sequenceBuffer |-> <<>>],
                   result |-> r \o processCompleteSequence(
                                      p.sequenceBuffer \o <<ESC, BSLASH>>)]
             ELSE [p |-> p, result |-> r \o <<ESC, BSLASH>>]
        ELSE IF b = FF
        THEN [p |-> p,
              result |-> r \o <<ESC, LBRACK, DIGIT2, UpperJ, ESC, LBRACK, UpperH>>]
        ELSE IF b = SO \/ b = SI
        THEN [p |-> p, result |-> Append(r, b)]
        ELSE IF b = ESC
        THEN [p |-> [inSequence |-> TRUE, sequenceBuffer |-> <<ESC>>], result |-> r]
        ELSE IF p.inSequence
        THEN LET buf == Append(p.sequenceBuffer, b)
             IN  IF isSequenceComplete(buf)
                 THEN [p |-> [inSequence |-> FALSE, sequenceBuffer |-> <<>>],
                       result |-> r \o processCompleteSequence(buf)]
                 ELSE [p |-> [inSequence |-> TRUE, sequenceBuffer |-> buf],
                       result |-> r]
        ELSE [p |-> p, result |-> Append(r, b)]

RECURSIVE ansiLoop(_, _, _)
ansiLoop(st, data, i) ==
    IF i > Len(data) THEN st ELSE ansiLoop(ansiByte(st, data[i]), data, i + 1)

\* ProcessANSIData(data) on processor p: the processor afterwards and the
\* returned bytes. A sequence still incomplete at the end of the chunk is
\* appended to the result and stays in sequenceBuffer.
ProcessANSIData(p, data) ==
    LET st == ansiLoop([p |-> p, result |-> <<>>], data, 1)
    IN  [p |-> st.p,
         result |-> IF Len(st.p.sequenceBuffer) > 0
                    THEN st.result \o st.p.sequenceBuffer
                    ELSE st.result]

----------------------------------------------------------------------------
(* Charset names                                                           *)

\* strings.ToUpper on the charset names a session can hold.
ToUpperCharset(cs) ==
    IF cs = "petsciiu" THEN "PETSCIIU"
    ELSE cs

IsLegacyCharset(cs) ==
    ToUpperCharset(cs) \in {"PETSCIIU", "PETSCIIL", "ATASCII"}

----------------------------------------------------------------------------
(* Telnet negotiation filter: processTelnetData                            *)

IAC   == 255
DONT  == 254
DO    == 253
WONT  == 252
WILL  == 251
SB    == 250
SE    == 240
TELOPT_BINARY == 0
TELOPT_TTYPE  == 24
TELOPT_NAWS   == 31
TELQUAL_IS    == 0
TELQUAL_SEND  == 1
DefaultCols   == 80
DefaultRows   == 25
ByteMod       == 256

\* The bytes of the terminal-type strings "ansi", "PETSCII", "ATASCII".
TermTypeBytes(cs) ==
    IF ToUpperCharset(cs) \in {"PETSCIIU", "PETSCIIL"}
    THEN <<80, 69, 84, 83, 67, 73, 73>>
    ELSE IF ToUpperCharset(cs) = "ATASCII"
    THEN <<65, 84, 65, 83, 67, 73, 73>>
    ELSE <<97, 110, 115, 105>>

\* buildNAWSSB: IAC SB NAWS widthHi widthLo heightHi heightLo IAC SE.
buildNAWSSB(termCols, termRows) ==
    LET cols == IF termCols = 0 \/ termRows = 0 THEN DefaultCols ELSE termCols
        rows == IF termCols = 0 \/ termRows = 0 THEN DefaultRows ELSE termRows
    IN  <<IAC, SB, TELOPT_NAWS,
          (cols \div ByteMod) % ByteMod, cols % ByteMod,
          (rows \div ByteMod) % ByteMod, rows % ByteMod,
          IAC, SE>>

\* The reply to one 3-byte command IAC cmd option and the option flags after
\* it. acc = [clean, response, tn]; tn = [binTX, binRX, naws, ttype].
telnetCommand(acc, cmd, option, c) ==
    LET tn == acc.tn
        reply(r) == acc.response \o r
    IN  IF cmd = DO
        THEN IF option = TELOPT_BINARY
             THEN [acc EXCEPT !.response = reply(<<IAC, WILL, option>>),
                              !.tn.binTX = TRUE]
             ELSE IF option = TELOPT_NAWS
             THEN [acc EXCEPT !.response = reply(<<IAC, WILL, option>>
                                   \o buildNAWSSB(c.termCols, c.termRows)),
                              !.tn.naws = TRUE]
             ELSE IF option = TELOPT_TTYPE
             THEN [acc EXCEPT !.response = reply(<<IAC, WILL, option>>),
                              !.tn.ttype = TRUE]
             ELSE [acc EXCEPT !.response = reply(<<IAC, WONT, option>>)]
        ELSE IF cmd = DONT
        THEN [acc EXCEPT !.response = reply(<<IAC, WONT, option>>),
                         !.tn.binTX = IF option = TELOPT_BINARY THEN FALSE ELSE @,
                         !.tn.naws = IF option = TELOPT_NAWS THEN FALSE ELSE @]
        ELSE IF cmd = WILL
        THEN IF option = TELOPT_BINARY
             THEN [acc EXCEPT !.response = reply(<<IAC, DO, option>>),
                              !.tn.binRX = TRUE]
             ELSE [acc EXCEPT !.response = reply(<<IAC, DONT, option>>)]
        ELSE IF cmd = WONT
        THEN [acc EXCEPT !.response = reply(<<IAC, DONT, option>>),
                         !.tn.binRX = IF option = TELOPT_BINARY THEN FALSE ELSE @]
        ELSE acc

\* The subnegotiation branch, entered at data[i] = IAC, data[i+1] = SB.
\* Returns [acc, next]: the accumulator and the index the loop goes on at.
telnetSubneg(acc, data, i, c) ==
    LET j == i + 2
    IN  IF j > Len(data) THEN [acc |-> acc, next |-> i + 2]
        ELSE LET opt     == data[j]
                 sbStart == j + 1
                 ends    == {k \in sbStart..(Len(data) - 1) :
                                data[k] = IAC /\ data[k + 1] = SE}
             IN  IF ends = {}
                 THEN \* unterminated SB: drop the remainder
                      [acc |-> acc,
                       next |-> IF sbStart > Len(data) THEN sbStart ELSE Len(data)]
                 ELSE LET k  == CHOOSE e \in ends : \A f \in ends : e <= f
                          sb == SubSeq(data, sbStart, k - 1)
                      IN  [acc |-> IF /\ opt = TELOPT_TTYPE
                                      /\ Len(sb) >= 1
                                      /\ sb[1] = TELQUAL_SEND
                                   THEN [acc EXCEPT !.response =
                                            @ \o <<IAC, SB, TELOPT_TTYPE, TELQUAL_IS>>
                                              \o TermTypeBytes(c.charset)
                                              \o <<IAC, SE>>]
                                   ELSE acc,
                           next |-> k + 2]

RECURSIVE telnetScan(_, _, _, _)
telnetScan(acc, data, i, c) ==
    IF i > Len(data) THEN acc
    ELSE IF data[i] = IAC
    THEN IF i + 1 <= Len(data)
         THEN IF data[i + 1] = IAC
              THEN telnetScan([acc EXCEPT !.clean = Append(@, IAC)], data, i + 2, c)
              ELSE IF i + 2 <= Len(data) /\ data[i + 1] >= SE /\ data[i + 1] <= DONT
              THEN telnetScan(telnetCommand(acc, data[i + 1], data[i + 2], c),
                              data, i + 3, c)
              ELSE IF data[i + 1] = SB
              THEN LET r == telnetSubneg(acc, data, i, c)
                   IN  telnetScan(r.acc, data, r.next, c)
              ELSE telnetScan(acc, data, i + 2, c)
         ELSE telnetScan(acc, data, i + 1, c)
    ELSE telnetScan([acc EXCEPT !.clean = Append(@, data[i])], data, i + 1, c)

\* processTelnetData(data) for a client c = [charset, termCols, termRows, tn]:
\* the clean bytes, the negotiation replies written to the remote after the
\* scan, and the option flags afterwards.
processTelnetData(data, c) ==
    telnetScan([clean |-> <<>>, response |-> <<>>, tn |-> c.tn], data, 1, c)

----------------------------------------------------------------------------
(* ZMODEM signatures                                                       *)

CAN     == 24
CR      == 13
EOT     == 4
UpperA  == 65
UpperB  == 66
LowerR  == 114
LowerZ  == 122

\* bytes.Index(data, pat), 0-based; -1 when pat does not occur.
IndexOf(data, pat) ==
    LET S == {k \in 1..(Len(data) - Len(pat) + 1) :
                 SubSeq(data, k, k + Len(pat) - 1) = pat}
    IN  IF S = {} THEN -1 ELSE (CHOOSE k \in S : \A m \in S : k <= m) - 1

\* Client.hasZmodemSignature
hasZmodemSignature(data) ==
    \/ Contains(data, <<STAR, STAR, CAN, UpperB, DIGIT0, DIGIT0>>)
    \/ Contains(data, <<STAR, CAN, UpperC>>)
    \/ Contains(data, <<LowerR, LowerZ, CR>>)

headerPatterns ==
    << <<STAR, STAR, CAN, UpperB, DIGIT0, DIGIT0>>,
       <<STAR, STAR, CAN, UpperA>>,
       <<STAR, STAR, CAN, UpperC>>,
       <<CAN, UpperB, DIGIT0, DIGIT0>>,
       <<CAN, UpperC, EOT>> >>

\* The loop with the first pattern of the list that occurs winning.
RECURSIVE findFirstListedWins(_, _, _)
findFirstListedWins(data, n, first) ==
    IF n > Len(headerPatterns) THEN first
    ELSE LET idx == IndexOf(data, headerPatterns[n])
         IN  findFirstListedWins(data, n + 1,
                                 IF idx # -1 /\ first = -1 THEN idx ELSE first)

\* LrzszReceiver.findZmodemStartIndex: [idx, ok], idx 0-based.
RECURSIVE findFirst(_, _, _)
findFirst(data, n, first) ==
    IF n > Len(headerPatterns) THEN first
    ELSE LET idx == IndexOf(data, headerPatterns[n])
         IN  findFirst(data, n + 1,
                       IF idx # -1 /\ (first = -1 \/ idx < first) THEN idx ELSE first)

findZmodemStartIndex(data) ==
    LET first == findFirst(data, 1, -1)
    IN  IF first >= 0 THEN [idx |-> first, ok |-> TRUE]
        ELSE [idx |-> 0, ok |-> FALSE]

LookbackMax  == 1024
LookbackKeep == 512

\* ProcessData: if len(l.buffer) > 1024 { l.buffer = l.buffer[512:] }
trimLookback(buf) ==
    IF Len(buf) > LookbackMax THEN SubSeq(buf, LookbackKeep + 1, Len(buf)) ELSE buf

\* A failed start that leaves the lookback buffer as it is.
startRzFailedKeepsBuffer(z, data) ==
    [z |-> z, remaining |-> data, consumed |-> FALSE]

\* ProcessData when startRz returns an error: l.buffer = make([]byte, 0);
\* return data, false
startRzFailed(z, data) ==
    [z |-> [z EXCEPT !.buffer = <<>>], remaining |-> data, consumed |-> FALSE]

\* The bytes put on the wire unchanged, no 0xFF doubled.
escapeIACNone(data) == data

\* forwardRzStdoutToRemote: every byte is copied and a 0xFF is doubled.
RECURSIVE escapeIAC(_)
escapeIAC(data) ==
    IF data = <<>> THEN <<>>
    ELSE (IF Head(data) = IAC THEN <<IAC, IAC>> ELSE <<Head(data)>>)
             \o escapeIAC(Tail(data))

----------------------------------------------------------------------------
(* Legacy (PETSCII / ATASCII) control translation and glyph conversion     *)

BS == 8
HT == 9
LF == 10
BypassPercent == 85
GlyphBase == 256

\* ESC [ followed by the bytes of s.
CSISeq(s) == <<ESC, LBRACK>> \o s

\* The two ASCII digits of a two-digit number.
Dec2(n) == <<DIGIT0 + (n \div 10), DIGIT0 + (n % 10)>>

\* colorMap of translatePETSCIIToANSI: the SGR foreground code of a PETSCII
\* colour byte, 0 for a byte that is not in the map.
colorMap(b) ==
    CASE b = 5   -> 97      \* 0x05 white
      [] b = 28  -> 31      \* 0x1C red
      [] b = 30  -> 32      \* 0x1E green
      [] b = 31  -> 34      \* 0x1F blue
      [] b = 144 -> 30      \* 0x90 black
      [] b = 129 -> 33      \* 0x81 orange
      [] b = 149 -> 33      \* 0x95 brown
      [] b = 150 -> 91      \* 0x96 light red
      [] b = 151 -> 90      \* 0x97 dark gray
      [] b = 152 -> 37      \* 0x98 medium gray
      [] b = 153 -> 92      \* 0x99 light green
      [] b = 154 -> 94      \* 0x9A light blue
      [] b = 155 -> 37      \* 0x9B light gray
      [] b = 156 -> 35      \* 0x9C purple
      [] b = 158 -> 93      \* 0x9E yellow
      [] b = 159 -> 96      \* 0x9F cyan
      [] OTHER   -> 0

petsciiControlNoHome(b) ==
    CASE b = 17  -> CSISeq(<<UpperB>>)
      [] b = 145 -> CSISeq(<<UpperA>>)
      [] b = 29  -> CSISeq(<<UpperC>>)
      [] b = 157 -> CSISeq(<<UpperD>>)
      [] b = 20  -> <<BS, SPACE, BS>>
      [] b = 19  -> CSISeq(<<UpperH>>)
      [] b = 147 -> CSISeq(<<DIGIT2, UpperJ>>)
      [] b = 18  -> CSISeq(<<DIGIT7, LowerM>>)
      [] b = 146 -> CSISeq(<<DIGIT2, DIGIT7, LowerM>>)
      [] b \in {SO, SI, 142} -> <<>>
      [] OTHER   -> <<b>>

\* The cases of the switch of translatePETSCIIToANSI other than 0x0D and
\* the colours: what one byte appends to the output.
petsciiControl(b) ==
    CASE b = 17  -> CSISeq(<<UpperB>>)                        \* 0x11 down
      [] b = 145 -> CSISeq(<<UpperA>>)                        \* 0x91 up
      [] b = 29  -> CSISeq(<<UpperC>>)                        \* 0x1D right
      [] b = 157 -> CSISeq(<<UpperD>>)                        \* 0x9D left
      [] b = 20  -> <<BS, SPACE, BS>>                         \* 0x14 delete
      [] b = 19  -> CSISeq(<<UpperH>>)                        \* 0x13 home
      [] b = 147 -> CSISeq(<<DIGIT2, UpperJ>>) \o CSISeq(<<UpperH>>)  \* 0x93
      [] b = 18  -> CSISeq(<<DIGIT7, LowerM>>)                \* 0x12 rvs on
      [] b = 146 -> CSISeq(<<DIGIT2, DIGIT7, LowerM>>)        \* 0x92 rvs off
      [] b \in {SO, SI, 142} -> <<>>             \* 0x0E, 0x0F, 0x8E: no output
      [] OTHER   -> <<b>>                        \* also 0x07 and 0x09

\* The bytes named by a case of the switch, 0x0D apart.
petsciiCases == {BEL, HT, SO, SI, 142, 17, 145, 29, 157, 20, 19, 147, 18, 146}

\* What a byte other than 0x0D appends to the output: the case of the
\* switch, or in the default branch the colour sequence or the byte itself.
petsciiByte(b) ==
    IF b \in petsciiCases \/ colorMap(b) = 0
    THEN petsciiControl(b)
    ELSE CSISeq(Dec2(colorMap(b)) \o <<LowerM>>)

\* c.charset after the byte b: 0x0E selects PETSCIIL, 0x8E PETSCIIU.
petsciiShift(b, cs) ==
    IF b = SO THEN "PETSCIIL"
    ELSE IF b = 142 THEN "PETSCIIU"
    ELSE cs

crRunEndNone(data, i) == i

\* The index of the last 0x0D of the run of 0x0D bytes that starts at i
\* (`for i+1 < len(data) && data[i+1] == 0x0D { i++ }`).
RECURSIVE crRunEnd(_, _)
crRunEnd(data, i) ==
    IF i + 1 <= Len(data) /\ data[i + 1] = CR THEN crRunEnd(data, i + 1) ELSE i

\* The loop of translatePETSCIIToANSI from index i on, with c.charset = cs
\* and out built so far: the output and c.charset at the end.
RECURSIVE petsciiScan(_, _, _, _)
petsciiScan(data, i, cs, out) ==
    IF i > Len(data) THEN [out |-> out, charset |-> cs]
    ELSE IF data[i] = CR
    THEN LET j == crRunEnd(data, i)
         IN  petsciiScan(data, j + 1, cs,
                         out \o <<CR>>
                             \o (IF j + 1 > Len(data) \/ data[j + 1] # LF
                                 THEN <<LF>> ELSE <<>>))
    ELSE petsciiScan(data, i + 1, petsciiShift(data[i], cs),
                     out \o petsciiByte(data[i]))

translatePETSCIIToANSI(data, cs) == petsciiScan(data, 1, cs, <<>>)

\* What one byte appends to the output of translateATASCIIToANSI.
atasciiByte(b) ==
    CASE b = 155 -> <<CR, LF>>                                \* 0x9B EOL
      [] b = FF  -> CSISeq(<<DIGIT2, UpperJ>>) \o CSISeq(<<UpperH>>)
      [] b = 28  -> CSISeq(<<UpperA>>)                        \* 0x1C up
      [] b = 29  -> CSISeq(<<UpperB>>)                        \* 0x1D down
      [] b = 30  -> CSISeq(<<UpperD>>)                        \* 0x1E left
      [] b = 31  -> CSISeq(<<UpperC>>)                        \* 0x1F right
      [] OTHER   -> <<b>>

RECURSIVE translateATASCIIToANSI(_)
translateATASCIIToANSI(data) ==
    IF data = <<>> THEN <<>>
    ELSE atasciiByte(Head(data)) \o translateATASCIIToANSI(Tail(data))

\* translateLegacyControls: the translated bytes and c.charset afterwards.
\* The switch compares c.charset as it is stored, case included.
translateLegacyControls(data, cs) ==
    IF cs \in {"PETSCIIU", "PETSCIIL"} THEN translatePETSCIIToANSI(data, cs)
    ELSE IF cs = "ATASCII"
    THEN [out |-> translateATASCIIToANSI(data), charset |-> cs]
    ELSE [out |-> data, charset |-> cs]

\* The count of `printable` in shouldBypassLegacyMapping.
bypassPrintable(b) == (b >= SPACE /\ b <= FinalHi) \/ b \in {CR, LF, HT}

shouldBypassLegacyMappingAnyByte(data) ==
    /\ Len(data) > 0
    /\ (Cardinality({i \in 1..Len(data) : bypassPrintable(data[i])}) * 100)
           \div Len(data) >= BypassPercent

shouldBypassLegacyMapping(data) ==
    /\ Len(data) > 0
    /\ \A i \in 1..Len(data) : data[i] < 128
    /\ (Cardinality({i \in 1..Len(data) : bypassPrintable(data[i])}) * 100)
           \div Len(data) >= BypassPercent

\* The glyph tables ConvertPETSCIIUToUTF8, ConvertPETSCIILToUTF8 and
\* ConvertATASCIIToUTF8: one fixed total table per variant, applied byte by
\* byte. The code point of byte b in table number n is written n * 256 + b,
\* so that the table a code point came from can be told.
TableOf(variant) ==
    IF variant = "PETSCIIU" THEN 1
    ELSE IF variant = "PETSCIIL" THEN 2
    ELSE 3

Glyph(variant, b) == TableOf(variant) * GlyphBase + b

ToUnicode(bytes, variant) == [i \in 1..Len(bytes) |-> Glyph(variant, bytes[i])]

\* The charset switch of readTelnet for one chunk of display bytes under a
\* legacy charset cs: the bytes after control translation and
\* normalizeCSISGRAny, whether the bypass was taken (never with
\* forceLegacyFull), the output, and c.charset afterwards. The glyph table is chosen by c.charset as it is
\* after the translation.
legacyConvert(data, cs, force) ==
    LET bypass == ~force /\ shouldBypassLegacyMapping(data)
        tr     == translateLegacyControls(data, cs)
        norm   == normalizeCSISGRAny(tr.out)
    IN  [force   |-> force,
         ctl     |-> tr.out,
         trans   |-> norm,
         bypass  |-> bypass,
         charset |-> tr.charset,
         out     |-> IF bypass THEN norm
                     ELSE ToUnicode(norm,
                                    IF tr.charset = "PETSCIIU" THEN "PETSCIIU"
                                    ELSE IF tr.charset = "PETSCIIL" THEN "PETSCIIL"
                                    ELSE "ATASCII")]

\* The conversion stage of readTelnet for one chunk: the legacy branch for
\* the three legacy names as stored, the default branch (output = input)
\* for any other name.
convertStage(data, cs, force) ==
    IF cs \in {"PETSCIIU", "PETSCIIL", "ATASCII"}
    THEN legacyConvert(data, cs, force)
    ELSE [force |-> force, ctl |-> data, trans |-> data, bypass |-> FALSE,
          charset |-> cs, out |-> data]

\* The final output guard of readTelnet.
outputGuard(out) ==
    IF Contains(out, <<ESC, LBRACK>>) THEN normalizeCSISGRAny(out) ELSE out

----------------------------------------------------------------------------
(* Legacy preamble buffering                                               *)

PreambleMax == 8192

\* The preamble state of a Client.
\*   active   c.preambleActive
\*   buf      c.preambleBuf
\*   expired  time.Since(c.preambleStart) > 1500 ms
NoPreamble == [active |-> FALSE, buf |-> <<>>, expired |-> TRUE]

\* What setCharsetAndAdjust(cs) does to the preamble state st.
armPreamble(cs, st) ==
    IF IsLegacyCharset(cs)
    THEN [active |-> TRUE, buf |-> <<>>, expired |-> FALSE]
    ELSE [st EXCEPT !.active = FALSE, !.buf = <<>>]

\* shouldFlushLegacyPreamble(chunk) with c.charset = cs and the preamble
\* state st; readTelnet calls it after it has appended chunk to st.buf.
shouldFlushLegacyPreamble(chunk, cs, st) ==
    IF Len(chunk) = 0 THEN FALSE
    ELSE \/ /\ ToUpperCharset(cs) \in {"PETSCIIU", "PETSCIIL"}
            /\ \E i \in 1..Len(chunk) : chunk[i] \in {147, 19}
         \/ /\ ToUpperCharset(cs) = "ATASCII"
            /\ \E i \in 1..Len(chunk) : chunk[i] = FF
         \/ st.expired
         \/ Len(st.buf) + Len(chunk) > PreambleMax

\* The preamble stage of readTelnet for one chunk of display bytes: the
\* preamble state afterwards, whether the chunk goes on to the conversion
\* and the `data` message, and the bytes that go on.
preambleStage(chunk, cs, st) ==
    IF IsLegacyCharset(cs) /\ st.active
    THEN LET app == [st EXCEPT !.buf = st.buf \o chunk]
         IN  IF shouldFlushLegacyPreamble(chunk, cs, app)
             THEN [st   |-> [app EXCEPT !.active = FALSE, !.buf = <<>>],
                   send |-> TRUE,
                   data |-> app.buf]
             ELSE [st |-> app, send |-> FALSE, data |-> <<>>]
    ELSE [st |-> st, send |-> TRUE, data |-> chunk]

\* c.charset after translateLegacyControls has run over data: under a
\* PETSCII variant that of the last mode-switch byte of data. Written
\* without recursion, for the chunks of thousands of bytes.
charsetAfterSwitches(data, cs) ==
    IF cs \notin {"PETSCIIU", "PETSCIIL"} THEN cs
    ELSE LET sw == {i \in 1..Len(data) : data[i] \in {SO, 142}}
         IN  IF sw = {} THEN cs
             ELSE LET last == CHOOSE i \in sw : \A j \in sw : j <= i
                  IN  petsciiShift(data[last], cs)

----------------------------------------------------------------------------
(* The session: one Client and its goroutines                              *)

VARIABLES
    ApprovedBBSList,  \* the process-wide allow-list (a sequence of entries)
    charset,          \* Client.charset
    termSize,         \* <<Client.termCols, Client.termRows>>
    preambleActive,   \* Client.preambleActive
    tn,               \* telnetBinaryTX/RX, telnetNAWS, telnetTTYPE
    telnet,           \* Client.telnet: 0 (nil) or the id of a connection
    sshConn,          \* Client.ssh/sshSession/sshIn: 0 (nil) or a connection id
    closedConns,      \* connections closed by this side or by the remote
    wsOpen,           \* the browser WebSocket is open
    kaAlive,          \* the keepalive (ping) goroutine is running
    mu,               \* Client.mu: the task holding it, or NoTask
    zr,               \* Client.zmodemReceiver (LrzszReceiver), see NoReceiver
    rz,               \* the rz subprocess: "none" | "running" | "exited"
    tmpFiles,         \* regular files in the temp directory of the transfer
    suppressZmodem,   \* Client.suppressZmodem
    pc,               \* position of each task
    stk,              \* return positions of each task (innermost first)
    loc,              \* locals of each task
    dials,            \* targets for which a dial goroutine has been started
    msgsLeft,         \* browser messages still to arrive
    chunksLeft,       \* remote chunks still to arrive
    failsLeft         \* browser write failures still to happen

svars == <<ApprovedBBSList, charset, termSize, preambleActive, tn, telnet,
           sshConn, closedConns, wsOpen, kaAlive, mu, zr, rz, tmpFiles,
           suppressZmodem, pc, stk, loc, dials, msgsLeft, chunksLeft,
           failsLeft>>

MaxMsgs   == 2
MaxChunks == 2
MaxFails  == 1
MaxFiles  == 1

NoTask == "none"

DialTasks == {"d1"}

\* ws: handleWebSocket's read loop;  d*: connectTelnet/connectSSH followed by
\* the read loop;  ad: the `go c.disconnect()` of sendJSON;  mon: monitorRz;
\* wd: watchdogTimer.
Tasks == {"ws", "ad", "mon", "wd"} \cup DialTasks

ConnIdOf(t) == IF t = "d1" THEN 1 ELSE 2

NoReceiver == [present |-> FALSE, active |-> FALSE, buffer |-> <<>>,
               rzStdin |-> FALSE, rzCmd |-> FALSE, tempDir |-> FALSE]

\* NewLrzszReceiver
NewLrzszReceiver == [NoReceiver EXCEPT !.present = TRUE]

\* A browser message (the fields the model uses).
NoMsg == [Type |-> "", Host |-> "", Port |-> 0, Protocol |-> "", Charset |-> ""]

ConnectMsg(h, p, proto, cs) ==
    [Type |-> "connect", Host |-> h, Port |-> p, Protocol |-> proto, Charset |-> cs]

\* msg: the message being sent; conn: the copied connection; raw, rem,
\* consumed, idx: the chunk and the ProcessData locals; m: the browser
\* message or dial target; files: files sent by completeTransfer.
NoLocals == [msg |-> "", conn |-> 0, raw |-> <<>>, rem |-> <<>>,
             consumed |-> FALSE, idx |-> 0, m |-> NoMsg, files |-> 0]

\* ---- the allow-list

\* strings.ToLower / the case folding of strings.EqualFold, on the strings
\* of the model.
ToLowerStr(x) ==
    IF x = "BBS.EXAMPLE.ORG" THEN "bbs.example.org"
    ELSE IF x = "Telnet" \/ x = "TELNET" THEN "telnet"
    ELSE x

EqualFold(a, b) == ToLowerStr(a) = ToLowerStr(b)

\* The entries GetBBSDirectoryEntries returns (bbs.csv).
Directory ==
    << [Host |-> "bbs.example.org", Port |-> 23, Protocol |-> "Telnet"],
       [Host |-> "ssh.example.org", Port |-> 22, Protocol |-> "ssh"] >>

\* refreshApprovedBBSList: the directory with Protocol lower-cased; the empty
\* list when the directory cannot be read or is empty.
refreshApprovedBBSList(dirOk) ==
    IF dirOk
    THEN [i \in 1..Len(Directory) |->
             [Directory[i] EXCEPT !.Protocol = ToLowerStr(@)]]
    ELSE <<>>

\* An approval loop that does not compare the protocol.
isApprovedHostPort(list, msg) ==
    \E i \in 1..Len(list) :
        /\ EqualFold(list[i].Host, msg.Host)
        /\ list[i].Port = msg.Port

\* The approval loop of the connect case.
isApproved(list, msg) ==
    \E i \in 1..Len(list) :
        /\ EqualFold(list[i].Host, msg.Host)
        /\ list[i].Port = msg.Port
        /\ EqualFold(list[i].Protocol, msg.Protocol)

\* The connect messages a browser sends in the model.
ConnectMsgs ==
    { ConnectMsg("bbs.example.org", 23, "telnet", ""),
      ConnectMsg("BBS.EXAMPLE.ORG", 23, "telnet", "PETSCIIU"),
      ConnectMsg("bbs.example.org", 23, "TELNET", "petsciiu"),
      ConnectMsg("bbs.example.org", 2323, "telnet", "PETSCIIU"),
      ConnectMsg("evil.example.net", 23, "telnet", ""),
      ConnectMsg("bbs.example.org", 23, "ssh", ""),
      ConnectMsg("ssh.example.org", 22, "ssh", "") }

\* ---- setCharsetAndAdjust: the charset, size and preamble flag afterwards
setCharsetAndAdjust(cs, size) ==
    IF IsLegacyCharset(cs)
    THEN [charset |-> cs, termSize |-> <<40, 25>>, preambleActive |-> TRUE]
    ELSE [charset |-> cs,
          termSize |-> << IF size[1] < 80 THEN 80 ELSE size[1],
                          IF size[2] < 25 THEN 25 ELSE size[2] >>,
          preambleActive |-> FALSE]

\* ---- control flow helpers
Goto(t, l) == pc' = [pc EXCEPT ![t] = l]

\* Task t calls the procedure starting at `entry` and continues at `back`.
Call(t, entry, back) ==
    /\ pc' = [pc EXCEPT ![t] = entry]
    /\ stk' = [stk EXCEPT ![t] = <<back>> \o @]

Return(t) ==
    /\ pc' = [pc EXCEPT ![t] = Head(stk[t])]
    /\ stk' = [stk EXCEPT ![t] = Tail(@)]

----------------------------------------------------------------------------
(* Variables of the harnesses for processTelnetData (SpecTelnet)           *)

VARIABLES
    tItems,     \* the chunk as a sequence of items (plain byte, command, ...)
    tRaw,       \* bytes rz writes to its stdout
    tWire,      \* what forwardRzStdoutToRemote puts on the wire for tRaw
    tCs,        \* Client.charset
    tRes,       \* the result of processTelnetData
    tPhase      \* "in" | "done" | "wire" | "back" | "split"

tvars == <<tItems, tRaw, tWire, tCs, tRes, tPhase>>

----------------------------------------------------------------------------
(* Variables of the harness for the lookback buffer (SpecZmodem)           *)

VARIABLES
    zBuf,       \* LrzszReceiver.buffer
    zActive,    \* LrzszReceiver.active
    zData,      \* the chunk the last ProcessData call was given
    zSeen,      \* the buffer findZmodemStartIndex was given in that call
    zFound,     \* what findZmodemStartIndex returned: [idx, ok]
    zRet,       \* what ProcessData returned: [remaining, consumed]
    zCalls      \* number of ProcessData calls made

zvars == <<zBuf, zActive, zData, zSeen, zFound, zRet, zCalls>>

\* NewLrzszReceiver, before any ProcessData call.
ZmodemIdle ==
    /\ zBuf = <<>>
    /\ zActive = FALSE
    /\ zData = <<>>
    /\ zSeen = <<>>
    /\ zFound = [idx |-> 0, ok |-> FALSE]
    /\ zRet = [remaining |-> <<>>, consumed |-> FALSE]
    /\ zCalls = 0

----------------------------------------------------------------------------
(* Variables of the harness for the legacy conversion (SpecLegacy)         *)

VARIABLES
    lCharset,   \* c.charset
    lForce,     \* c.forceLegacyFull
    lData,      \* the chunk of display bytes given last
    lBefore,    \* c.charset when that chunk arrived
    lRes,       \* what the conversion stage made of it
    lPrev,      \* the chunk before it, kept when it ends in 0x0D: its bytes,
                \* c.charset when it arrived, its bytes after control
                \* translation
    lCalls      \* chunks converted so far

lvars == <<lCharset, lForce, lData, lBefore, lRes, lPrev, lCalls>>

NoPrevChunk == [data |-> <<>>, before |-> "CP437", ctl |-> <<>>]

NoLegacyResult ==
    [force |-> FALSE, ctl |-> <<>>, trans |-> <<>>, bypass |-> FALSE,
     charset |-> "CP437", out |-> <<>>]

LegacyIdle ==
    /\ lCharset = "CP437" /\ lForce = FALSE
    /\ lData = <<>> /\ lBefore = "CP437"
    /\ lRes = NoLegacyResult /\ lCalls = 0
    /\ lPrev = NoPrevChunk

----------------------------------------------------------------------------
(* Variables of the harness for the preamble buffering (SpecPreamble)      *)

VARIABLES
    pCharset,   \* c.charset
    pState,     \* the preamble state
    pLast,      \* the chunk of display bytes given last
    pSent,      \* whether it went on to a `data` message, and with which bytes
    pOp,        \* the last operation: "set", "bbs", "chunk", "tick", "none"
    pCalls      \* chunks given so far

pvars == <<pCharset, pState, pLast, pSent, pOp, pCalls>>

NothingSent == [send |-> FALSE, data |-> <<>>]

PreambleIdle ==
    /\ pCharset = "CP437" /\ pState = NoPreamble
    /\ pLast = <<>> /\ pSent = NothingSent
    /\ pOp = "none" /\ pCalls = 0

----------------------------------------------------------------------------
(* Variables of the harness for repeated connects (SpecConnect)            *)

VARIABLES
    kTelnet,    \* c.telnet: 0 for nil, else the number of the connection
    kPc,        \* where each connectTelnet/readTelnet goroutine is
    kOwn,       \* the connection the goroutine dialled
    kLocal,     \* the variable conn of its read loop
    kOpen,      \* the connections that are open
    kDialled,   \* connections dialled so far
    kReads,     \* <<o, c>>: the read loop started for o has read from c
    kMsgs       \* connect messages the browser may still send

kvars == <<kTelnet, kPc, kOwn, kLocal, kOpen, kDialled, kReads, kMsgs>>

MaxConnects == 3

ConnTasks == {"c1", "c2"}

ConnectIdle ==
    /\ kTelnet = 0
    /\ kPc = [t \in ConnTasks |-> "idle"]
    /\ kOwn = [t \in ConnTasks |-> 0]
    /\ kLocal = [t \in ConnTasks |-> 0]
    /\ kOpen = {} /\ kDialled = 0 /\ kReads = {}
    /\ kMsgs = MaxConnects

----------------------------------------------------------------------------
(* Variables of the harness for an active transfer and the tasks that end   *)
(* it (SpecRace)                                                           *)

VARIABLES
    qActive,    \* l.active
    qStdin,     \* l.rzStdin: "open", "closed" (Close() called, field not yet
                \* nil) or "nil"
    qTempDir,   \* l.tempDir is not ""
    qRz,        \* the rz subprocess: "running" | "exited"
    qFiles,     \* regular files rz has left in the temp directory
    qPc,        \* position of each task
    qSeen,      \* files each task found when it listed the temp directory
    qSent,      \* fileDownload messages sent for the transfer
    qChunks,    \* remote chunks still to arrive
    qPanic      \* a nil pipe handle was written through

qvars == <<qActive, qStdin, qTempDir, qRz, qFiles, qPc, qSeen, qSent, qChunks,
           qPanic>>

MaxRaceChunks == 2

\* rd: the read loop in ProcessData;  mon: monitorRz;  can: a Cancel called
\* by the watchdog, a cancelDownload message or disconnect.
RaceTasks == {"rd", "mon", "can"}

RaceIdle ==
    /\ qActive = TRUE /\ qStdin = "open" /\ qTempDir = TRUE
    /\ qRz = "running" /\ qFiles = 0
    /\ qPc = [t \in RaceTasks |-> IF t = "rd" THEN "rd_read"
                                  ELSE IF t = "mon" THEN "mon_wait"
                                  ELSE "cn_idle"]
    /\ qSeen = [t \in RaceTasks |-> 0]
    /\ qSent = 0
    /\ qChunks = MaxRaceChunks
    /\ qPanic = FALSE

----------------------------------------------------------------------------
(* Variables of the harness for the pre-activation grace window (SpecGrace) *)

VARIABLES
    gNow,        \* the clock, in seconds
    gSuppress,   \* c.suppressZmodem
    gUntil,      \* c.suppressUntil
    gActive,     \* c.zmodemReceiver.Active()
    gBuf,        \* the receiver's lookback buffer
    gWin,        \* the grace window: whether one is running, and its start
    gLast,       \* the last chunk: when it came, the window it came in, what
                 \* could be displayed of it and what was sent as `data`
    gChunks      \* chunks given so far

gvars == <<gNow, gSuppress, gUntil, gActive, gBuf, gWin, gLast, gChunks>>

NoWindow == [open |-> FALSE, start |-> 0]

NoGraceChunk ==
    [at |-> -1, win |-> NoWindow, active |-> FALSE, shown |-> <<>>, out |-> <<>>]

GraceIdle ==
    /\ gNow = 0 /\ gSuppress = FALSE /\ gUntil = 0
    /\ gActive = FALSE /\ gBuf = <<>>
    /\ gWin = NoWindow /\ gLast = NoGraceChunk
    /\ gChunks = 0

----------------------------------------------------------------------------
(* Variables of the harness for the keepalive goroutine (SpecKeepalive)    *)

VARIABLES
    kaState,    \* the keepalive goroutine: "select" (blocked on the ticker and
                \* on c.done), "ping" (in conn.WriteMessage) or "done"
    kaTicker,   \* the 30 s ticker: "running" | "stopped"
    kaWs,       \* the WebSocket: "open" | "closed"
    kaHandler,  \* handleWebSocket: "loop" | "returning" | "returned"
    kaDropped,  \* a disconnect found no receiver on c.done (the default case)
    kaPings,    \* pings written so far
    kaMsgs      \* browser messages handled so far

uvars == <<kaState, kaTicker, kaWs, kaHandler, kaDropped, kaPings, kaMsgs>>

KeepaliveIdle ==
    /\ kaState = "select" /\ kaTicker = "running" /\ kaWs = "open"
    /\ kaHandler = "loop" /\ kaDropped = FALSE
    /\ kaPings = 0 /\ kaMsgs = 0

----------------------------------------------------------------------------
(* Variables of the harness for the terminal size (SpecResize)             *)

VARIABLES
    rSize,       \* <<c.termCols, c.termRows>>
    rCharset,    \* c.charset
    rTelnet,     \* c.telnet: 0 for nil, else the number of the connection
    rTn,         \* telnetBinaryTX/RX, telnetNAWS, telnetTTYPE
    rAgreed,     \* connections on which the remote asked for NAWS (DO NAWS
                 \* received on them, no DONT NAWS since)
    rDialled,    \* connections dialled so far
    rOp,         \* the last operation, the size before it, the size asked
    rWrote       \* what the last operation wrote to a remote

rvars == <<rSize, rCharset, rTelnet, rTn, rAgreed, rDialled, rOp, rWrote>>

NoWrite == [conn |-> 0, bytes |-> <<>>]

NoTn == [binTX |-> FALSE, binRX |-> FALSE, naws |-> FALSE, ttype |-> FALSE]

ResizeIdle ==
    /\ rSize = <<DefaultCols, DefaultRows>>
    /\ rCharset = "CP437"
    /\ rTelnet = 0
    /\ rTn = NoTn
    /\ rAgreed = {}
    /\ rDialled = 0
    /\ rOp = [type |-> "none", before |-> <<DefaultCols, DefaultRows>>,
              asked |-> <<DefaultCols, DefaultRows>>]
    /\ rWrote = NoWrite

yvars == <<rvars, qvars, gvars, uvars>>

LaterIdle == ResizeIdle /\ RaceIdle /\ GraceIdle /\ KeepaliveIdle

wvars == <<lvars, pvars, kvars, yvars>>

ConversionIdle == LegacyIdle /\ PreambleIdle /\ ConnectIdle /\ LaterIdle

xvars == <<tvars, zvars, wvars>>

----------------------------------------------------------------------------
(* Harness for normalizeCSISGRAny (SpecNorm)                               *)

MaxNormLen == 4

\* ESC [ ? 1 ; M j and a space (an intermediate byte that is no parameter)
NormBytes == {ESC, LBRACK, QMARK, DIGIT1, SEMI, UpperM, LowerJ, SPACE}

\* The sequences named in the documentation and the test script.
NormExamples ==
    { <<ESC, LBRACK, DIGIT3, DIGIT1, UpperM>>,
      <<ESC, LBRACK, QMARK, DIGIT1, SEMI, DIGIT2, UpperC>>,
      <<ESC, LBRACK, DIGIT1, LowerJ, ESC, LBRACK, DIGIT1, UpperM>> }

NormInputs == SeqsUpTo(NormBytes, MaxNormLen) \cup NormExamples

NormIdle == nIn = <<>> /\ nOut = <<>> /\ nOut2 = <<>> /\ nPhase = "in"

NormOnce ==
    /\ nPhase = "in"
    /\ nOut' = normalizeCSISGRAny(nIn)
    /\ nPhase' = "once"
    /\ UNCHANGED <<nIn, nOut2>>
    /\ UNCHANGED <<avars, svars, xvars>>

NormTwice ==
    /\ nPhase = "once"
    /\ nOut2' = normalizeCSISGRAny(nOut)
    /\ nPhase' = "twice"
    /\ UNCHANGED <<nIn, nOut>>
    /\ UNCHANGED <<avars, svars, xvars>>

----------------------------------------------------------------------------
(* Harness for ANSIEnhancedProcessor (SpecAnsi)                            *)

MaxStreamLen == 4

AnsiBytes == {ESC, LBRACK, RBRACK, DIGIT1, LowerM, BSLASH, SPACE}

AnsiExamples ==
    { <<ESC, LBRACK, DIGIT3, DIGIT1, LowerM>>,
      <<ESC, RBRACK, DIGIT1, ESC, BSLASH>>,
      <<ESC, RBRACK, DIGIT1, BEL, SPACE>>,
      <<ESC, LBRACK, UpperJ>>,
      <<ESC, LBRACK, UpperK>>,
      <<ESC, LBRACK, DIGIT2, UpperJ>>,
      <<ESC, LBRACK, DIGIT1, DIGIT2, UpperJ>>,
      <<ESC, LBRACK, DIGIT0, SEMI, DIGIT2, UpperJ>>,
      <<ESC, LBRACK, DIGIT1, UpperJ>>,
      <<ESC, LBRACK, DIGIT2, UpperK>>,
      <<ESC, LBRACK, DIGIT1, SEMI, DIGIT1, UpperH>> }

AnsiInputs == SeqsUpTo(AnsiBytes, MaxStreamLen) \cup AnsiExamples

AnsiIdle ==
    /\ aStream = <<>>
    /\ aPos = 0
    /\ aProc = NewANSIEnhancedProcessor
    /\ aOut = <<>>
    /\ aLast = <<>>
    /\ aLastIn = <<>>
    /\ aWhole = <<>>
    /\ aWholeDone = FALSE

\* The read loop hands the next n bytes of the stream to ProcessANSIData.
AnsiFeed ==
    \E n \in 1..(Len(aStream) - aPos) :
        LET chunk == SubSeq(aStream, aPos + 1, aPos + n)
            r     == ProcessANSIData(aProc, chunk)
        IN  /\ aProc' = r.p
            /\ aOut' = aOut \o r.result
            /\ aLast' = r.result
            /\ aLastIn' = chunk
            /\ aPos' = aPos + n
            /\ UNCHANGED <<aStream, aWhole, aWholeDone>>
            /\ UNCHANGED <<nvars, svars, xvars>>

\* A fresh processor is given the whole stream as one chunk.
AnsiWhole ==
    /\ ~aWholeDone
    /\ aWhole' = ProcessANSIData(NewANSIEnhancedProcessor, aStream).result
    /\ aWholeDone' = TRUE
    /\ UNCHANGED <<aStream, aPos, aProc, aOut, aLast, aLastIn>>
    /\ UNCHANGED <<nvars, svars, xvars>>

----------------------------------------------------------------------------
(* The session: procedures shared by the goroutines                        *)

cfgVars == <<ApprovedBBSList, charset, termSize, preambleActive>>
netVars == <<telnet, sshConn, closedConns, wsOpen, kaAlive>>
zmVars  == <<zr, rz, tmpFiles, suppressZmodem>>
budVars == <<msgsLeft, chunksLeft, failsLeft>>
hvars   == <<nvars, avars, xvars>>

\* The Client fields processTelnetData reads.
CView == [charset |-> charset, termCols |-> termSize[1],
          termRows |-> termSize[2], tn |-> tn]

\* processTelnetData writes its replies after lock; copy; unlock.
TelnetReplyOk(r) == r.response = <<>> \/ mu = NoTask

\* sendJSON: c.mu.Lock(); defer c.mu.Unlock()
SendJSONLock(t) ==
    /\ pc[t] = "sj_lock"
    /\ mu = NoTask
    /\ mu' = t
    /\ Goto(t, "sj_write")
    /\ UNCHANGED <<cfgVars, netVars, zmVars, budVars, tn, stk, loc, dials, hvars>>

\* sendJSON: c.ws.WriteJSON(msg) with the lock held, then the deferred unlock.
\* A write error that is no close error starts `go c.disconnect()`.
SendJSONWrite(t) ==
    /\ pc[t] = "sj_write"
    /\ mu' = NoTask
    /\ loc' = [loc EXCEPT ![t].msg = "",
                          ![t].m = IF Head(stk[t]) = "ws_read" THEN NoMsg ELSE @]
    /\ \/ /\ Return(t)
          /\ UNCHANGED failsLeft
       \/ /\ failsLeft > 0
          /\ pc["ad"] = "idle"
          /\ failsLeft' = failsLeft - 1
          /\ pc' = [pc EXCEPT ![t] = Head(stk[t]), !["ad"] = "dc_lock"]
          /\ stk' = [stk EXCEPT ![t] = Tail(@), !["ad"] = <<"idle">>]
    /\ UNCHANGED <<cfgVars, netVars, zmVars, msgsLeft, chunksLeft, tn, dials, hvars>>

\* Cancel up to its call of sendToRemote: return when not active, otherwise
\* clear active. `back` is where the caller continues after Cancel.
CancelBegin(t, back) ==
    IF ~zr.active
    THEN Goto(t, back) /\ UNCHANGED <<zr, stk>>
    ELSE /\ zr' = [zr EXCEPT !.active = FALSE]
         /\ Call(t, "cn_send", back)

\* disconnect: c.mu.Lock(); defer c.mu.Unlock(); the non-blocking send on
\* c.done, which the keepalive goroutine receives in its select; then
\* if c.zmodemReceiver != nil { c.zmodemReceiver.Cancel() }
DisconnectLock(t) ==
    /\ pc[t] = "dc_lock"
    /\ mu = NoTask
    /\ mu' = t
    /\ kaAlive' = FALSE
    /\ IF zr.present
       THEN CancelBegin(t, "dc_close")
       ELSE Goto(t, "dc_close") /\ UNCHANGED <<zr, stk>>
    /\ UNCHANGED <<cfgVars, telnet, sshConn, closedConns, wsOpen, rz,
                   tmpFiles, suppressZmodem, budVars, tn, loc, dials, hvars>>

\* disconnect: close and nil the telnet and SSH handles; deferred unlock.
DisconnectClose(t) ==
    /\ pc[t] = "dc_close"
    /\ closedConns' = closedConns \cup ({telnet, sshConn} \ {0})
    /\ telnet' = 0
    /\ sshConn' = 0
    /\ mu' = NoTask
    /\ Return(t)
    /\ UNCHANGED <<cfgVars, wsOpen, kaAlive, zmVars, budVars, tn, loc, dials, hvars>>

\* Cancel from its call of sendToRemote on: sendToRemote takes the lock to
\* copy the connection and writes the cancel bytes after unlocking; then
\* rz's stdin is closed, rz is killed, the temp directory is removed and the
\* buffer is reset.
CancelFinish(t) ==
    /\ pc[t] = "cn_send"
    /\ mu = NoTask
    /\ zr' = [zr EXCEPT !.rzStdin = FALSE, !.rzCmd = FALSE,
                        !.tempDir = FALSE, !.buffer = <<>>]
    /\ rz' = IF zr.rzCmd /\ rz = "running" THEN "exited" ELSE rz
    /\ tmpFiles' = IF zr.tempDir THEN 0 ELSE tmpFiles
    /\ Return(t)
    /\ UNCHANGED <<cfgVars, netVars, suppressZmodem, budVars, tn, mu, loc,
                   dials, hvars>>

\* sendToRemote: lock; copy telnet, sshIn and charset; unlock; then the
\* write to the copied connection, without the lock.
SendToRemote(t) ==
    /\ pc[t] = "sr_lock"
    /\ mu = NoTask
    /\ loc' = [loc EXCEPT ![t].msg = "",
                          ![t].m = IF Head(stk[t]) = "ws_read" THEN NoMsg ELSE @]
    /\ Return(t)
    /\ UNCHANGED <<cfgVars, netVars, zmVars, budVars, tn, mu, dials, hvars>>

\* completeTransfer up to its sleep: clear active and the buffer, close
\* rz's stdin.
completeStart(z) ==
    [z EXCEPT !.active = FALSE, !.buffer = <<>>, !.rzStdin = FALSE]

\* completeTransfer: one fileDownload per received file, then the temp
\* directory is removed and rz is killed.
CompleteFiles(t) ==
    /\ pc[t] = "ct_files"
    /\ IF zr.tempDir /\ loc[t].files < tmpFiles
       THEN /\ loc' = [loc EXCEPT ![t].files = @ + 1, ![t].msg = "fileDownload"]
            /\ Call(t, "sj_lock", "ct_files")
            /\ UNCHANGED <<zr, rz, tmpFiles>>
       ELSE /\ zr' = [zr EXCEPT !.tempDir = FALSE, !.rzCmd = FALSE]
            /\ tmpFiles' = IF zr.tempDir THEN 0 ELSE tmpFiles
            /\ rz' = IF zr.rzCmd /\ rz = "running" THEN "exited" ELSE rz
            /\ loc' = [loc EXCEPT ![t].files = 0]
            /\ Return(t)
    /\ UNCHANGED <<cfgVars, netVars, suppressZmodem, budVars, tn, mu, dials, hvars>>

----------------------------------------------------------------------------
(* The session: handleWebSocket's read loop                                *)

\* case "connect": lazy refresh of an empty list, the approval loop, the
\* error reply for a target that is not approved.
WsConnect ==
    /\ pc["ws"] = "ws_read"
    /\ msgsLeft > 0
    /\ \E m \in ConnectMsgs, dirOk \in BOOLEAN :
        LET list == IF Len(ApprovedBBSList) = 0
                    THEN refreshApprovedBBSList(dirOk)
                    ELSE ApprovedBBSList
        IN  /\ ApprovedBBSList' = list
            /\ IF ~isApproved(list, m)
               THEN /\ loc' = [loc EXCEPT !["ws"].msg = "error", !["ws"].m = m]
                    /\ Call("ws", "sj_lock", "ws_read")
               ELSE /\ pc["d1"] = "idle"
                    /\ loc' = [loc EXCEPT !["ws"].m = m]
                    /\ Goto("ws", IF m.Charset # "" THEN "ws_setcs" ELSE "ws_dial")
                    /\ UNCHANGED stk
    /\ msgsLeft' = msgsLeft - 1
    /\ UNCHANGED <<charset, termSize, preambleActive, netVars, zmVars,
                   chunksLeft, failsLeft, tn, mu, dials, hvars>>

\* case "setCharset"
WsSetCharsetMsg ==
    /\ pc["ws"] = "ws_read"
    /\ msgsLeft > 0
    /\ \E cs \in {"CP437", "PETSCIIU"} :
        loc' = [loc EXCEPT !["ws"].m = [NoMsg EXCEPT !.Type = "setCharset",
                                                      !.Charset = cs]]
    /\ Goto("ws", "ws_setcs")
    /\ msgsLeft' = msgsLeft - 1
    /\ UNCHANGED <<cfgVars, netVars, zmVars, chunksLeft, failsLeft, tn, mu,
                   stk, dials, hvars>>

\* setCharsetAndAdjust, up to its unlock.
WsSetCharset ==
    /\ pc["ws"] = "ws_setcs"
    /\ mu = NoTask
    /\ LET r == setCharsetAndAdjust(loc["ws"].m.Charset, termSize)
       IN  /\ charset' = r.charset
           /\ termSize' = r.termSize
           /\ preambleActive' = r.preambleActive
           /\ Goto("ws", IF telnet # 0 /\ tn.naws /\ r.termSize # termSize
                         THEN "ws_naws"
                         ELSE IF loc["ws"].m.Type = "connect" THEN "ws_dial"
                         ELSE "ws_read")
           /\ loc' = [loc EXCEPT !["ws"].m =
                         IF @.Type = "connect" \/ (telnet # 0 /\ tn.naws /\ r.termSize # termSize)
                         THEN @ ELSE NoMsg]
    /\ UNCHANGED <<ApprovedBBSList, netVars, zmVars, budVars, tn, mu, stk,
                   dials, hvars>>

\* sendTelnetNAWS: lock; copy c.telnet; unlock; write the subnegotiation.
WsSendNAWS ==
    /\ pc["ws"] = "ws_naws"
    /\ mu = NoTask
    /\ Goto("ws", IF loc["ws"].m.Type = "connect" THEN "ws_dial" ELSE "ws_read")
    /\ loc' = [loc EXCEPT !["ws"].m = IF @.Type = "connect" THEN @ ELSE NoMsg]
    /\ UNCHANGED <<cfgVars, netVars, zmVars, budVars, tn, mu, stk, dials, hvars>>

\* The end of case "connect": go connectTelnet / go connectSSH.
WsDial ==
    /\ pc["ws"] = "ws_dial"
    /\ LET m == loc["ws"].m
       IN  IF m.Protocol = "telnet" \/ m.Protocol = "ssh"
           THEN /\ pc' = [pc EXCEPT !["ws"] = "ws_read",
                                    !["d1"] = IF m.Protocol = "telnet"
                                              THEN "tn_dial" ELSE "ssh_dial"]
                /\ loc' = [loc EXCEPT !["d1"].m = m, !["ws"].m = NoMsg]
                /\ dials' = dials \cup {m}
           ELSE /\ Goto("ws", "ws_read")
                /\ loc' = [loc EXCEPT !["ws"].m = NoMsg]
                /\ UNCHANGED dials
    /\ UNCHANGED <<cfgVars, netVars, zmVars, budVars, tn, mu, stk, hvars>>

\* case "data": sendToRemote
WsData ==
    /\ pc["ws"] = "ws_read"
    /\ msgsLeft > 0
    /\ loc' = [loc EXCEPT !["ws"].msg = "data"]
    /\ Call("ws", "sr_lock", "ws_read")
    /\ msgsLeft' = msgsLeft - 1
    /\ UNCHANGED <<cfgVars, netVars, zmVars, chunksLeft, failsLeft, tn, mu,
                   dials, hvars>>

\* case "cancelDownload"
WsCancelDownload ==
    /\ pc["ws"] = "ws_read"
    /\ msgsLeft > 0
    /\ IF zr.present
       THEN CancelBegin("ws", "ws_read")
       ELSE UNCHANGED <<pc, stk, zr>>
    /\ msgsLeft' = msgsLeft - 1
    /\ UNCHANGED <<cfgVars, netVars, rz, tmpFiles, suppressZmodem, chunksLeft,
                   failsLeft, tn, mu, loc, dials, hvars>>

\* case "disconnect": client.disconnect(); return
WsDisconnect ==
    /\ pc["ws"] = "ws_read"
    /\ msgsLeft > 0
    /\ Call("ws", "dc_lock", "ws_exit")
    /\ msgsLeft' = msgsLeft - 1
    /\ UNCHANGED <<cfgVars, netVars, zmVars, chunksLeft, failsLeft, tn, mu,
                   loc, dials, hvars>>

\* conn.ReadJSON fails (the browser went away, or the read deadline passed):
\* client.disconnect(); break
WsReadError ==
    /\ pc["ws"] = "ws_read"
    /\ wsOpen' = FALSE
    /\ Call("ws", "dc_lock", "ws_exit")
    /\ UNCHANGED <<cfgVars, telnet, sshConn, closedConns, kaAlive, zmVars,
                   budVars, tn, mu, loc, dials, hvars>>

\* The handler returns: defer conn.Close()
WsExit ==
    /\ pc["ws"] = "ws_exit"
    /\ wsOpen' = FALSE
    /\ Goto("ws", "done")
    /\ UNCHANGED <<cfgVars, telnet, sshConn, closedConns, kaAlive, zmVars,
                   budVars, tn, mu, stk, loc, dials, hvars>>

----------------------------------------------------------------------------
(* The session: connectTelnet, readTelnet and LrzszReceiver.ProcessData    *)

\* The chunks conn.Read returns in the model: text, a ZRQINIT header, a
\* NAWS request.
Chunks ==
    { <<UpperA>>,
      <<STAR, STAR, CAN, UpperB, DIGIT0, DIGIT0>>,
      <<IAC, DO, TELOPT_NAWS>> }

\* A display condition that knows only the pre-suppression window.
displayDataNoZmodem(consumed, remaining, telnetClean, active, suppress) ==
    IF ~suppress THEN telnetClean ELSE <<>>

\* readTelnet, from the ProcessData result to the display condition: the
\* bytes that go on to the display path, <<>> when nothing is displayed.
displayData(consumed, remaining, telnetClean, active, suppress) ==
    LET cleanData == IF active THEN <<>>
                     ELSE IF consumed THEN remaining
                     ELSE telnetClean
    IN  IF Len(cleanData) > 0 /\ ~active /\ ~suppress THEN cleanData ELSE <<>>

\* connectTelnet: DialWithProxy fails and the error is reported; or c.telnet
\* and c.zmodemReceiver are set under the lock, then
\* sendMessage("connected", ...) and go c.readTelnet().
TelnetDial(t) ==
    /\ pc[t] = "tn_dial"
    /\ \/ /\ loc' = [loc EXCEPT ![t].msg = "error"]
          /\ Call(t, "sj_lock", "done")
          /\ UNCHANGED <<telnet, zr>>
       \/ /\ mu = NoTask
          /\ telnet' = ConnIdOf(t)
          /\ zr' = NewLrzszReceiver
          /\ loc' = [loc EXCEPT ![t].msg = "connected"]
          /\ Call(t, "sj_lock", "rd_top")
    /\ UNCHANGED <<cfgVars, sshConn, closedConns, wsOpen, kaAlive, rz,
                   tmpFiles, suppressZmodem, budVars, tn, mu, dials, hvars>>

\* readTelnet: lock; conn := c.telnet; unlock; return when nil.
ReadTop(t) ==
    /\ pc[t] = "rd_top"
    /\ mu = NoTask
    /\ loc' = [loc EXCEPT ![t] = [NoLocals EXCEPT !.conn = telnet]]
    /\ Goto(t, IF telnet = 0 THEN "done" ELSE "rd_read")
    /\ UNCHANGED <<cfgVars, netVars, zmVars, budVars, tn, mu, stk, dials, hvars>>

\* conn.Read returns a chunk.
ReadChunk(t) ==
    /\ pc[t] = "rd_read"
    /\ loc[t].conn \notin closedConns
    /\ chunksLeft > 0
    /\ \E ch \in Chunks : loc' = [loc EXCEPT ![t].raw = ch]
    /\ chunksLeft' = chunksLeft - 1
    /\ Goto(t, "rd_pd")
    /\ UNCHANGED <<cfgVars, netVars, zmVars, msgsLeft, failsLeft, tn, mu,
                   stk, dials, hvars>>

\* conn.Read fails (EOF, timeout, closed connection):
\* sendJSON(disconnected); c.disconnect(); return
ReadError(t) ==
    /\ pc[t] = "rd_read"
    /\ loc' = [loc EXCEPT ![t].msg = "disconnected"]
    /\ pc' = [pc EXCEPT ![t] = "sj_lock"]
    /\ stk' = [stk EXCEPT ![t] = <<"dc_lock", "done">>]
    /\ UNCHANGED <<cfgVars, netVars, zmVars, budVars, tn, mu, dials, hvars>>

\* readTelnet: pre-suppression on the first ZMODEM signature.
PreSuppress(raw) ==
    suppressZmodem \/ (hasZmodemSignature(raw) /\ (~zr.present \/ ~zr.active))

\* No receiver, or ProcessData while not active with no ZMODEM start in the
\* buffer: the chunk passes through.
PDPassThrough(t) ==
    /\ pc[t] = "rd_pd"
    /\ IF ~zr.present
       THEN UNCHANGED zr
       ELSE /\ ~zr.active
            /\ LET buf == zr.buffer \o loc[t].raw
               IN  /\ ~findZmodemStartIndex(buf).ok
                   /\ zr' = [zr EXCEPT !.buffer = trimLookback(buf)]
    /\ suppressZmodem' = PreSuppress(loc[t].raw)
    /\ loc' = [loc EXCEPT ![t].consumed = FALSE, ![t].rem = loc[t].raw]
    /\ Goto(t, "rd_clean")
    /\ UNCHANGED <<cfgVars, netVars, rz, tmpFiles, budVars, tn, mu, stk,
                   dials, hvars>>

\* ProcessData, not active, a ZMODEM start in the buffer: startRz. When it
\* fails the buffer is dropped and the chunk passes through; otherwise the
\* monitors are started and downloadStart is sent.
PDStartRz(t) ==
    /\ pc[t] = "rd_pd"
    /\ zr.present /\ ~zr.active
    /\ LET buf == zr.buffer \o loc[t].raw
           st  == findZmodemStartIndex(buf)
       IN  /\ st.ok
           /\ \/ /\ LET r == startRzFailed(zr, loc[t].raw)
                    IN  /\ zr' = r.z
                        /\ loc' = [loc EXCEPT ![t].consumed = r.consumed,
                                              ![t].rem = r.remaining]
                 /\ Goto(t, "rd_clean")
                 /\ UNCHANGED <<rz, tmpFiles, stk>>
              \/ /\ pc["mon"] = "idle" /\ pc["wd"] = "idle"
                 /\ zr' = [zr EXCEPT !.buffer = buf, !.tempDir = TRUE,
                                     !.rzCmd = TRUE, !.rzStdin = TRUE]
                 /\ rz' = "running"
                 /\ tmpFiles' = 0
                 /\ loc' = [loc EXCEPT ![t].msg = "downloadStart",
                                       ![t].idx = st.idx]
                 /\ pc' = [pc EXCEPT ![t] = "sj_lock", !["mon"] = "mon_wait",
                                     !["wd"] = "wd_tick"]
                 /\ stk' = [stk EXCEPT ![t] = <<"pd_active">> \o @]
    /\ suppressZmodem' = PreSuppress(loc[t].raw)
    /\ UNCHANGED <<cfgVars, netVars, budVars, tn, mu, dials, hvars>>

\* ProcessData after startRz: l.active = true; sendJSON(zmodemStatus)
PDActivate(t) ==
    /\ pc[t] = "pd_active"
    /\ zr' = [zr EXCEPT !.active = TRUE]
    /\ loc' = [loc EXCEPT ![t].msg = "zmodemStatus"]
    /\ Call(t, "sj_lock", "pd_feed")
    /\ UNCHANGED <<cfgVars, netVars, rz, tmpFiles, suppressZmodem, budVars,
                   tn, mu, dials, hvars>>

\* ProcessData after activation: the buffer from the ZMODEM start on is
\* cleaned of telnet negotiation and written to rz; return nil, true.
PDFeed(t) ==
    /\ pc[t] = "pd_feed"
    /\ IF zr.rzStdin /\ Len(zr.buffer) > loc[t].idx
       THEN LET r == processTelnetData(
                        SubSeq(zr.buffer, loc[t].idx + 1, Len(zr.buffer)), CView)
            IN  /\ TelnetReplyOk(r)
                /\ tn' = r.tn
       ELSE UNCHANGED tn
    /\ zr' = [zr EXCEPT !.buffer = <<>>]
    /\ loc' = [loc EXCEPT ![t].consumed = TRUE, ![t].rem = <<>>, ![t].idx = 0]
    /\ Goto(t, "rd_clean")
    /\ UNCHANGED <<cfgVars, netVars, rz, tmpFiles, suppressZmodem, budVars,
                   mu, stk, dials, hvars>>

\* ProcessData while active: the cleaned chunk is written to rz and a failed
\* write ends the transfer with completeTransfer (return nil, true); without
\* a pipe to rz the chunk passes through (return data, false).
PDPipe(t) ==
    /\ pc[t] = "rd_pd"
    /\ zr.present /\ zr.active
    /\ IF zr.rzStdin
       THEN /\ LET r == processTelnetData(loc[t].raw, CView)
               IN  /\ TelnetReplyOk(r)
                   /\ tn' = r.tn
            /\ loc' = [loc EXCEPT ![t].consumed = TRUE, ![t].rem = <<>>]
            /\ IF rz = "running"
               THEN Goto(t, "rd_clean") /\ UNCHANGED <<stk, zr>>
               ELSE zr' = completeStart(zr) /\ Call(t, "ct_files", "rd_clean")
       ELSE /\ loc' = [loc EXCEPT ![t].consumed = FALSE, ![t].rem = loc[t].raw]
            /\ Goto(t, "rd_clean")
            /\ UNCHANGED <<tn, stk, zr>>
    /\ suppressZmodem' = PreSuppress(loc[t].raw)
    /\ UNCHANGED <<cfgVars, netVars, rz, tmpFiles, budVars, mu, dials, hvars>>

\* readTelnet after ProcessData: processTelnetData for a chunk that was not
\* consumed, the end of pre-suppression, the display condition, the legacy
\* preamble, and the `data` message.
ReadClean(t) ==
    /\ pc[t] = "rd_clean"
    /\ \E expired \in BOOLEAN, flush \in BOOLEAN :
        LET r    == processTelnetData(loc[t].raw, CView)
            sup  == suppressZmodem /\ ~(expired \/ (zr.present /\ zr.active))
            out  == displayData(loc[t].consumed, loc[t].rem, r.clean,
                                zr.present /\ zr.active, sup)
            held == IsLegacyCharset(charset) /\ preambleActive
        IN  /\ IF loc[t].consumed
               THEN UNCHANGED tn
               ELSE TelnetReplyOk(r) /\ tn' = r.tn
            /\ suppressZmodem' = sup
            /\ preambleActive' = IF Len(out) > 0 /\ held /\ flush
                                 THEN FALSE ELSE preambleActive
            /\ IF Len(out) > 0 /\ (~held \/ flush)
               THEN /\ loc' = [loc EXCEPT ![t].msg = "data"]
                    /\ Call(t, "sj_lock", "rd_top")
               ELSE /\ Goto(t, "rd_top")
                    /\ UNCHANGED <<stk, loc>>
    /\ UNCHANGED <<ApprovedBBSList, charset, termSize, netVars, zr, rz,
                   tmpFiles, budVars, mu, dials, hvars>>

----------------------------------------------------------------------------
(* The session: connectSSH and handleSSHSession                            *)

\* connectSSH: the dial, handshake, session, pty or shell fails and the
\* error is reported; or c.ssh, c.sshSession and c.sshIn are set under the
\* lock, then sendMessage("connected", ...) and go c.handleSSHSession(session).
SSHDial(t) ==
    /\ pc[t] = "ssh_dial"
    /\ \/ /\ loc' = [loc EXCEPT ![t].msg = "error"]
          /\ Call(t, "sj_lock", "done")
          /\ UNCHANGED sshConn
       \/ /\ mu = NoTask
          /\ sshConn' = ConnIdOf(t)
          /\ loc' = [loc EXCEPT ![t].msg = "connected", ![t].conn = ConnIdOf(t)]
          /\ Call(t, "sj_lock", "sh_read")
    /\ UNCHANGED <<cfgVars, telnet, closedConns, wsOpen, kaAlive, zmVars,
                   budVars, tn, mu, dials, hvars>>

\* handleSSHSession: a chunk goes through the display path (held back while
\* the legacy preamble is buffered) and is sent as `data`.
SSHRead(t) ==
    /\ pc[t] = "sh_read"
    /\ loc[t].conn \notin closedConns
    /\ chunksLeft > 0
    /\ chunksLeft' = chunksLeft - 1
    /\ \E flush \in BOOLEAN :
        LET held == IsLegacyCharset(charset) /\ preambleActive
        IN  /\ preambleActive' = IF held /\ flush THEN FALSE ELSE preambleActive
            /\ IF ~held \/ flush
               THEN /\ loc' = [loc EXCEPT ![t].msg = "data"]
                    /\ Call(t, "sj_lock", "sh_read")
               ELSE UNCHANGED <<pc, stk, loc>>
    /\ UNCHANGED <<ApprovedBBSList, charset, termSize, netVars, zmVars,
                   msgsLeft, failsLeft, tn, mu, dials, hvars>>

\* handleSSHSession: stdout.Read fails: sendJSON(disconnected); c.disconnect()
SSHReadError(t) ==
    /\ pc[t] = "sh_read"
    /\ loc' = [loc EXCEPT ![t].msg = "disconnected"]
    /\ pc' = [pc EXCEPT ![t] = "sj_lock"]
    /\ stk' = [stk EXCEPT ![t] = <<"dc_lock", "done">>]
    /\ UNCHANGED <<cfgVars, netVars, zmVars, budVars, tn, mu, dials, hvars>>

----------------------------------------------------------------------------
(* The session: rz and its monitors                                        *)

\* rz exits by itself, having written some files.
RzExit ==
    /\ rz = "running"
    /\ rz' = "exited"
    /\ \E n \in 0..MaxFiles : tmpFiles' = IF zr.tempDir THEN n ELSE tmpFiles
    /\ UNCHANGED <<cfgVars, netVars, zr, suppressZmodem, budVars, tn, mu, pc,
                   stk, loc, dials, hvars>>

\* monitorRz: rzCmd.Wait() returns; completeTransfer when still active.
MonitorRz ==
    /\ pc["mon"] = "mon_wait"
    /\ rz = "exited"
    /\ rz' = "none"
    /\ IF zr.active
       THEN zr' = completeStart(zr) /\ Call("mon", "ct_files", "idle")
       ELSE Goto("mon", "idle") /\ UNCHANGED <<stk, zr>>
    /\ UNCHANGED <<cfgVars, netVars, tmpFiles, suppressZmodem, budVars,
                   tn, mu, loc, dials, hvars>>

\* watchdogTimer: a tick finds the transfer over, or finds it too long or
\* too quiet and cancels it.
WatchdogTick ==
    /\ pc["wd"] = "wd_tick"
    /\ CancelBegin("wd", "idle")
    /\ UNCHANGED <<cfgVars, netVars, rz, tmpFiles, suppressZmodem, budVars,
                   tn, mu, loc, dials, hvars>>

\* One step of task t.
TaskStep(t) ==
    \/ SendJSONLock(t) \/ SendJSONWrite(t)
    \/ DisconnectLock(t) \/ DisconnectClose(t)
    \/ CancelFinish(t)
    \/ SendToRemote(t)
    \/ CompleteFiles(t)

----------------------------------------------------------------------------
(* Specifications                                                          *)

vars == <<nvars, avars, svars, xvars>>

NoTelnetOptions == [binTX |-> FALSE, binRX |-> FALSE, naws |-> FALSE, ttype |-> FALSE]

\* The Client handleWebSocket constructs, before any message is read.
SessionInit ==
    /\ charset = "CP437"
    /\ termSize = <<DefaultCols, DefaultRows>>
    /\ preambleActive = FALSE
    /\ tn = NoTelnetOptions
    /\ telnet = 0
    /\ sshConn = 0
    /\ closedConns = {}
    /\ wsOpen = TRUE
    /\ kaAlive = TRUE
    /\ mu = NoTask
    /\ zr = NoReceiver
    /\ rz = "none"
    /\ tmpFiles = 0
    /\ suppressZmodem = FALSE
    /\ pc = [t \in Tasks |-> IF t = "ws" THEN "ws_read" ELSE "idle"]
    /\ stk = [t \in Tasks |-> <<>>]
    /\ loc = [t \in Tasks |-> NoLocals]
    /\ dials = {}
    /\ msgsLeft = MaxMsgs
    /\ chunksLeft = MaxChunks
    /\ failsLeft = MaxFails

\* The pure-function harnesses run beside a session that takes no step.
SessionIdle == ApprovedBBSList = <<>> /\ SessionInit

----------------------------------------------------------------------------
(* Harness for processTelnetData (SpecTelnet)                              *)

MaxItems  == 3
MaxRawLen == 3

\* The items a chunk is made of: a plain byte, a 3-byte option command, a
\* complete subnegotiation, a subnegotiation the chunk ends in.
TnPlain(b) == [kind |-> "plain", bytes |-> <<b>>, cmd |-> 0, opt |-> 0]

TnCmd(cmd, opt) ==
    [kind |-> "cmd", bytes |-> <<IAC, cmd, opt>>, cmd |-> cmd, opt |-> opt]

TnSub(opt, body) ==
    [kind |-> "sb", bytes |-> <<IAC, SB, opt>> \o body \o <<IAC, SE>>,
     cmd |-> SB, opt |-> opt]

TnOpenSub(opt, body) ==
    [kind |-> "open", bytes |-> <<IAC, SB, opt>> \o body, cmd |-> SB, opt |-> opt]

TTypeSend == TnSub(TELOPT_TTYPE, <<TELQUAL_SEND>>)

TelnetItems ==
    { TnPlain(UpperA), TnPlain(DIGIT1),
      TnCmd(DO, TELOPT_BINARY), TnCmd(DO, TELOPT_NAWS), TnCmd(DO, TELOPT_TTYPE),
      TnCmd(DO, 3), TnCmd(WILL, TELOPT_BINARY), TnCmd(WILL, 3),
      TnCmd(DONT, TELOPT_NAWS), TnCmd(WONT, TELOPT_BINARY),
      TTypeSend,
      TnSub(TELOPT_TTYPE, <<TELQUAL_IS, UpperA>>),
      TnOpenSub(TELOPT_TTYPE, <<TELQUAL_SEND>>) }

\* Chunks: only the last item may be a subnegotiation that is not closed.
TelnetChunks ==
    { its \in SeqsUpTo(TelnetItems, MaxItems) :
          \A i \in 1..(Len(its) - 1) : its[i].kind # "open" }

RawBytes == {IAC, SB, SE, DO, UpperA}

TelnetCharsets == {"CP437", "PETSCIIU", "ATASCII"}

\* The bytes of the chunk.
RECURSIVE ItemBytes(_)
ItemBytes(its) ==
    IF its = <<>> THEN <<>> ELSE Head(its).bytes \o ItemBytes(Tail(its))

\* The Client processTelnetData runs on: the charset, the size the charset
\* gives, no option negotiated yet.
TelnetView(cs) ==
    LET r == setCharsetAndAdjust(cs, <<DefaultCols, DefaultRows>>)
    IN  [charset |-> cs, termCols |-> r.termSize[1], termRows |-> r.termSize[2],
         tn |-> NoTelnetOptions]

NoTelnetResult == [clean |-> <<>>, response |-> <<>>, tn |-> NoTelnetOptions]

TelnetIdle ==
    /\ tItems = <<>>
    /\ tRaw = <<>>
    /\ tWire = <<>>
    /\ tCs = "CP437"
    /\ tRes = NoTelnetResult
    /\ tPhase = "in"

\* readTelnet hands the chunk to processTelnetData.
TelnetProcess ==
    /\ tPhase = "in"
    /\ tRaw = <<>>
    /\ tRes' = processTelnetData(ItemBytes(tItems), TelnetView(tCs))
    /\ tPhase' = "done"
    /\ UNCHANGED <<tItems, tRaw, tWire, tCs>>
    /\ UNCHANGED <<nvars, avars, svars, zvars, wvars>>

\* forwardRzStdoutToRemote writes the escaped bytes to the telnet connection.
TelnetEscape ==
    /\ tPhase = "in"
    /\ tItems = <<>>
    /\ tWire' = escapeIAC(tRaw)
    /\ tPhase' = "wire"
    /\ UNCHANGED <<tItems, tRaw, tCs, tRes>>
    /\ UNCHANGED <<nvars, avars, svars, zvars, wvars>>

\* The escaped bytes arrive as one chunk and go through processTelnetData.
TelnetDecode ==
    /\ tPhase = "wire"
    /\ tRes' = processTelnetData(tWire, TelnetView(tCs))
    /\ tPhase' = "back"
    /\ UNCHANGED <<tItems, tRaw, tWire, tCs>>
    /\ UNCHANGED <<nvars, avars, svars, zvars, wvars>>

\* The escaped bytes arrive in two reads, cut after the first k bytes, and
\* each read goes through processTelnetData.
TelnetDecodeSplit ==
    /\ tPhase = "wire"
    /\ \E k \in 1..(Len(tWire) - 1) :
        LET v  == TelnetView(tCs)
            r1 == processTelnetData(SubSeq(tWire, 1, k), v)
            r2 == processTelnetData(SubSeq(tWire, k + 1, Len(tWire)),
                                    [v EXCEPT !.tn = r1.tn])
        IN  tRes' = [clean |-> r1.clean \o r2.clean,
                     response |-> r1.response \o r2.response,
                     tn |-> r2.tn, cut |-> k]
    /\ tPhase' = "split"
    /\ UNCHANGED <<tItems, tRaw, tWire, tCs>>
    /\ UNCHANGED <<nvars, avars, svars, zvars, wvars>>

InitTelnet ==
    /\ \/ tItems \in TelnetChunks /\ tRaw = <<>>
       \/ tItems = <<>> /\ tRaw \in SeqsUpTo(RawBytes, MaxRawLen)
    /\ tCs \in TelnetCharsets
    /\ tWire = <<>>
    /\ tRes = NoTelnetResult
    /\ tPhase = "in"
    /\ NormIdle
    /\ AnsiIdle
    /\ SessionIdle
    /\ ZmodemIdle
    /\ ConversionIdle

NextTelnet == TelnetProcess \/ TelnetEscape \/ TelnetDecode \/ TelnetDecodeSplit

SpecTelnet == InitTelnet /\ [][NextTelnet]_vars

----------------------------------------------------------------------------
(* Harness for the lookback buffer of LrzszReceiver (SpecZmodem)           *)

MaxCalls == 2

\* Chunks are one or two pieces (a header pattern, the typed command rz\r,
\* a single byte), or one long chunk of text without a pattern, well within
\* the 8192 bytes a read returns.
ZmPieces ==
    {headerPatterns[n] : n \in 1..Len(headerPatterns)}
        \cup {<<LowerR, LowerZ, CR>>, <<STAR>>, <<UpperA>>}

RECURSIVE ConcatAll(_)
ConcatAll(ps) == IF ps = <<>> THEN <<>> ELSE Head(ps) \o ConcatAll(Tail(ps))

LongChunk == [i \in 1..(LookbackMax + LookbackKeep + 1) |-> UpperA]

ZmChunks ==
    {ConcatAll(ps) : ps \in SeqsUpTo(ZmPieces, 2) \ {<<>>}} \cup {LongChunk}

\* ProcessData on an inactive receiver: the chunk is appended to the buffer
\* and the buffer searched; a signature starts rz (which can fail) and the
\* buffer is emptied; without one the buffer is trimmed and the chunk
\* passes through.
ZmProcessData ==
    /\ ~zActive
    /\ zCalls < MaxCalls
    /\ \E data \in ZmChunks :
        LET buf == zBuf \o data
            st  == findZmodemStartIndex(buf)
        IN  /\ zData' = data
            /\ zSeen' = buf
            /\ zFound' = st
            /\ zBuf' = IF st.ok THEN <<>> ELSE trimLookback(buf)
            /\ \E startOk \in (IF st.ok THEN BOOLEAN ELSE {FALSE}) :
                /\ zActive' = startOk
                /\ zRet' = IF startOk
                           THEN [remaining |-> <<>>, consumed |-> TRUE]
                           ELSE [remaining |-> data, consumed |-> FALSE]
    /\ zCalls' = zCalls + 1
    /\ UNCHANGED <<nvars, avars, svars, tvars, wvars>>

InitZmodem ==
    /\ ZmodemIdle
    /\ ConversionIdle
    /\ NormIdle
    /\ AnsiIdle
    /\ TelnetIdle
    /\ SessionIdle

NextZmodem == ZmProcessData

SpecZmodem == InitZmodem /\ [][NextZmodem]_vars

\* The allow-list is loaded at startup; it is empty when bbs.csv could not
\* be read.
Init ==
    /\ ApprovedBBSList \in {<<>>, refreshApprovedBBSList(TRUE)}
    /\ SessionInit
    /\ NormIdle
    /\ AnsiIdle
    /\ TelnetIdle
    /\ ZmodemIdle
    /\ ConversionIdle

Next ==
    \/ WsConnect \/ WsSetCharsetMsg \/ WsSetCharset \/ WsSendNAWS \/ WsDial
    \/ WsData \/ WsCancelDownload \/ WsDisconnect \/ WsReadError \/ WsExit
    \/ RzExit \/ MonitorRz \/ WatchdogTick
    \/ \E t \in Tasks : SendJSONLock(t)
    \/ \E t \in Tasks : SendJSONWrite(t)
    \/ \E t \in Tasks : DisconnectLock(t)
    \/ \E t \in Tasks : DisconnectClose(t)
    \/ \E t \in Tasks : CancelFinish(t)
    \/ \E t \in Tasks : SendToRemote(t)
    \/ \E t \in Tasks : CompleteFiles(t)
    \/ \E t \in DialTasks : TelnetDial(t)
    \/ \E t \in DialTasks : ReadTop(t)
    \/ \E t \in DialTasks : ReadChunk(t)
    \/ \E t \in DialTasks : ReadError(t)
    \/ \E t \in DialTasks : PDPassThrough(t)
    \/ \E t \in DialTasks : PDStartRz(t)
    \/ \E t \in DialTasks : PDActivate(t)
    \/ \E t \in DialTasks : PDFeed(t)
    \/ \E t \in DialTasks : PDPipe(t)
    \/ \E t \in DialTasks : ReadClean(t)
    \/ \E t \in DialTasks : SSHDial(t)
    \/ \E t \in DialTasks : SSHRead(t)
    \/ \E t \in DialTasks : SSHReadError(t)

Spec == Init /\ [][Next]_vars

\* The steps of the read loop of dial task t that wait for nothing but the
\* scheduler and Client.mu.
ReadLoopStep(t) ==
    \/ ReadTop(t) \/ PDPassThrough(t) \/ PDStartRz(t) \/ PDActivate(t)
    \/ PDFeed(t) \/ PDPipe(t) \/ ReadClean(t)

\* Scheduling: a goroutine that can take a step is scheduled in the end, a
\* mutex that is free is acquired by a goroutine waiting for it, and
\* rzCmd.Wait() returns once rz has exited. Nothing is assumed of the
\* browser, the remote host, rz or the clock.
Fairness ==
    /\ \A t \in Tasks : WF_vars(TaskStep(t))
    /\ \A t \in DialTasks : WF_vars(ReadLoopStep(t))
    /\ WF_vars(MonitorRz)

FairSpec == Spec /\ Fairness

InitNorm ==
    /\ nIn \in NormInputs
    /\ nOut = <<>> /\ nOut2 = <<>> /\ nPhase = "in"
    /\ AnsiIdle
    /\ SessionIdle
    /\ TelnetIdle
    /\ ZmodemIdle
    /\ ConversionIdle

NextNorm == NormOnce \/ NormTwice

SpecNorm == InitNorm /\ [][NextNorm]_vars

InitAnsi ==
    /\ aStream \in AnsiInputs
    /\ aPos = 0
    /\ aProc = NewANSIEnhancedProcessor
    /\ aOut = <<>> /\ aLast = <<>> /\ aLastIn = <<>>
    /\ aWhole = <<>> /\ aWholeDone = FALSE
    /\ NormIdle
    /\ SessionIdle
    /\ TelnetIdle
    /\ ZmodemIdle
    /\ ConversionIdle

NextAnsi == AnsiFeed \/ AnsiWhole

SpecAnsi == InitAnsi /\ [][NextAnsi]_vars

----------------------------------------------------------------------------
(* Harness for repeated connects: connectTelnet and readTelnet             *)
(* (SpecConnect)                                                           *)

KOther == <<lvars, pvars, nvars, avars, svars, tvars, zvars, yvars>>

\* handleWebSocket: an approved telnet connect message starts
\* `go client.connectTelnet(...)`, whatever c.telnet is.
KConnect ==
    /\ kMsgs > 0
    /\ \E t \in ConnTasks :
           /\ kPc[t] = "idle"
           /\ kPc' = [kPc EXCEPT ![t] = "dial"]
    /\ kMsgs' = kMsgs - 1
    /\ UNCHANGED <<kTelnet, kOwn, kLocal, kOpen, kDialled, kReads, KOther>>

\* connectTelnet: DialWithProxy returns a new connection, or an error.
KDial(t) ==
    /\ kPc[t] = "dial"
    /\ \E ok \in BOOLEAN :
           IF ok
           THEN /\ kDialled' = kDialled + 1
                /\ kOpen' = kOpen \cup {kDialled + 1}
                /\ kOwn' = [kOwn EXCEPT ![t] = kDialled + 1]
                /\ kPc' = [kPc EXCEPT ![t] = "set"]
           ELSE /\ kPc' = [kPc EXCEPT ![t] = "idle"]
                /\ UNCHANGED <<kDialled, kOpen, kOwn>>
    /\ UNCHANGED <<kTelnet, kLocal, kReads, kMsgs, KOther>>

\* connectTelnet: c.telnet = conn under the lock, then `go c.readTelnet()`.
KSetTelnet(t) ==
    /\ kPc[t] = "set"
    /\ kTelnet' = kOwn[t]
    /\ kPc' = [kPc EXCEPT ![t] = "loop"]
    /\ UNCHANGED <<kOwn, kLocal, kOpen, kDialled, kReads, kMsgs, KOther>>

\* readTelnet, top of the loop: conn := c.telnet; return if nil.
KReadTop(t) ==
    /\ kPc[t] = "loop"
    /\ kLocal' = [kLocal EXCEPT ![t] = kTelnet]
    /\ kPc' = [kPc EXCEPT ![t] = IF kTelnet = 0 THEN "idle" ELSE "read"]
    /\ UNCHANGED <<kTelnet, kOwn, kOpen, kDialled, kReads, kMsgs, KOther>>

\* readTelnet: conn.Read returns bytes.
KRead(t) ==
    /\ kPc[t] = "read"
    /\ kLocal[t] \in kOpen
    /\ kReads' = kReads \cup {<<kOwn[t], kLocal[t]>>}
    /\ kPc' = [kPc EXCEPT ![t] = "loop"]
    /\ UNCHANGED <<kTelnet, kOwn, kLocal, kOpen, kDialled, kMsgs, KOther>>

\* disconnect: c.telnet.Close(); c.telnet = nil.
KClosed == kOpen \ {kTelnet}

\* readTelnet: conn.Read returns an error (closed, end of stream, 120 s
\* without data); the loop calls disconnect and returns.
KReadError(t) ==
    /\ kPc[t] = "read"
    /\ kOpen' = KClosed
    /\ kTelnet' = 0
    /\ kPc' = [kPc EXCEPT ![t] = "idle"]
    /\ UNCHANGED <<kOwn, kLocal, kDialled, kReads, kMsgs, KOther>>

\* handleWebSocket: a disconnect message; the loop returns after it.
KDisconnect ==
    /\ kMsgs > 0
    /\ kOpen' = KClosed
    /\ kTelnet' = 0
    /\ kMsgs' = 0
    /\ UNCHANGED <<kPc, kOwn, kLocal, kDialled, kReads, KOther>>

InitConnect ==
    /\ ConnectIdle
    /\ NormIdle
    /\ AnsiIdle
    /\ SessionIdle
    /\ TelnetIdle
    /\ ZmodemIdle
    /\ LegacyIdle
    /\ PreambleIdle
    /\ LaterIdle

NextConnect ==
    \/ KConnect
    \/ KDisconnect
    \/ \E t \in ConnTasks :
           KDial(t) \/ KSetTelnet(t) \/ KReadTop(t) \/ KRead(t) \/ KReadError(t)

SpecConnect == InitConnect /\ [][NextConnect]_vars

----------------------------------------------------------------------------
(* Harness for the terminal size: resize, setCharset, connect, NAWS        *)
(* (SpecResize)                                                            *)

MaxResizeConns == 2

ROther == <<lvars, pvars, kvars, nvars, avars, svars, tvars, zvars, qvars, gvars, uvars>>

\* A variant of the size test of case "resize" that looks at the columns only.
acceptsResizeAnyRows(cols, rows) == cols \in {40, 80, 100}

\* The size test of case "resize".
acceptsResize(cols, rows) ==
    \/ (cols = 40 /\ (rows = 24 \/ rows = 25))
    \/ (cols = 80 /\ rows = 25)
    \/ (cols = 100 /\ rows = 31)

\* sendTelnetNAWS: what is written, and to which connection.
sendTelnetNAWS(conn, size) ==
    IF conn # 0 THEN [conn |-> conn, bytes |-> buildNAWSSB(size[1], size[2])]
    ELSE NoWrite

ResizeCols == {0, 40, 80, 100, 132}
ResizeRows == {24, 25, 31, 50}
ResizeCharsets == {"CP437", "PETSCIIU", "atascii"}

\* case "resize"
RResize ==
    \E cols \in ResizeCols, rows \in ResizeRows :
        /\ rOp' = [type |-> "resize", before |-> rSize, asked |-> <<cols, rows>>]
        /\ IF acceptsResize(cols, rows)
           THEN /\ rSize' = <<cols, rows>>
                /\ rWrote' = IF rTelnet # 0 /\ rTn.naws
                             THEN sendTelnetNAWS(rTelnet, <<cols, rows>>)
                             ELSE NoWrite
           ELSE /\ rSize' = rSize
                /\ rWrote' = NoWrite
        /\ UNCHANGED <<rCharset, rTelnet, rTn, rAgreed, rDialled, ROther>>

\* case "setCharset": setCharsetAndAdjust
RSetCharset ==
    \E cs \in ResizeCharsets :
        LET r == setCharsetAndAdjust(cs, rSize)
        IN  /\ rOp' = [type |-> "setCharset", before |-> rSize, asked |-> rSize]
            /\ rCharset' = r.charset
            /\ rSize' = r.termSize
            /\ rWrote' = IF rTelnet # 0 /\ rTn.naws /\ r.termSize # rSize
                         THEN sendTelnetNAWS(rTelnet, r.termSize)
                         ELSE NoWrite
            /\ UNCHANGED <<rTelnet, rTn, rAgreed, rDialled, ROther>>

\* case "connect" for an approved telnet target: setCharsetAndAdjust when the
\* message names a charset, then connectTelnet, whose dial succeeds or fails.
RConnect ==
    /\ rDialled < MaxResizeConns
    /\ \E cs \in ResizeCharsets \cup {""}, ok \in BOOLEAN :
        LET r == IF cs # "" THEN setCharsetAndAdjust(cs, rSize)
                 ELSE [charset |-> rCharset, termSize |-> rSize]
        IN  /\ rOp' = [type |-> "connect", before |-> rSize, asked |-> rSize]
            /\ rCharset' = r.charset
            /\ rSize' = r.termSize
            /\ rWrote' = IF rTelnet # 0 /\ rTn.naws /\ r.termSize # rSize
                         THEN sendTelnetNAWS(rTelnet, r.termSize)
                         ELSE NoWrite
            /\ rDialled' = rDialled + 1
            /\ rTelnet' = IF ok THEN rDialled + 1 ELSE rTelnet
            /\ UNCHANGED <<rTn, rAgreed, ROther>>

\* readTelnet: the remote sends DO NAWS or DONT NAWS; processTelnetData sets
\* the flag and the replies are written to the connection.
RRemote ==
    /\ rTelnet # 0
    /\ \E cmd \in {DO, DONT} :
        LET r == processTelnetData(<<IAC, cmd, TELOPT_NAWS>>,
                                   [charset |-> rCharset, termCols |-> rSize[1],
                                    termRows |-> rSize[2], tn |-> rTn])
        IN  /\ rTn' = r.tn
            /\ rWrote' = [conn |-> rTelnet, bytes |-> r.response]
            /\ rAgreed' = IF cmd = DO THEN rAgreed \cup {rTelnet}
                          ELSE rAgreed \ {rTelnet}
            /\ rOp' = [type |-> "remote", before |-> rSize, asked |-> rSize]
    /\ UNCHANGED <<rSize, rCharset, rTelnet, rDialled, ROther>>

\* readTelnet: a read fails (the remote closed); disconnect sets c.telnet nil.
RReadError ==
    /\ rTelnet # 0
    /\ rTelnet' = 0
    /\ rWrote' = NoWrite
    /\ rOp' = [type |-> "closed", before |-> rSize, asked |-> rSize]
    /\ UNCHANGED <<rSize, rCharset, rTn, rAgreed, rDialled, ROther>>

InitResize ==
    /\ KeepaliveIdle
    /\ ResizeIdle
    /\ NormIdle
    /\ AnsiIdle
    /\ SessionIdle
    /\ TelnetIdle
    /\ ZmodemIdle
    /\ LegacyIdle
    /\ PreambleIdle
    /\ ConnectIdle
    /\ RaceIdle
    /\ GraceIdle

NextResize == RResize \/ RSetCharset \/ RConnect \/ RRemote \/ RReadError

SpecResize == InitResize /\ [][NextResize]_vars

----------------------------------------------------------------------------
(* Harness for an active transfer: ProcessData, monitorRz, Cancel and      *)
(* completeTransfer, none of which takes a lock (SpecRace)                 *)

QOther == <<lvars, pvars, kvars, nvars, avars, svars, tvars, zvars, rvars, gvars, uvars>>

QGoto(t, l) == qPc' = [qPc EXCEPT ![t] = l]

\* rz exits, by itself or killed, leaving n files in the temp directory.
QRzExit ==
    /\ qRz = "running"
    /\ qRz' = "exited"
    /\ \E n \in 0..MaxFiles : qFiles' = IF qTempDir THEN n ELSE qFiles
    /\ UNCHANGED <<qActive, qStdin, qTempDir, qPc, qSeen, qSent, qChunks,
                   qPanic, QOther>>

\* ProcessData for a chunk: `if l.active && l.rzStdin != nil`, then
\* processTelnetData(data); otherwise the chunk passes through.
QCheck ==
    /\ qPc["rd"] = "rd_read"
    /\ qChunks > 0
    /\ qChunks' = qChunks - 1
    /\ QGoto("rd", IF qActive /\ qStdin # "nil" THEN "rd_write" ELSE "rd_read")
    /\ UNCHANGED <<qActive, qStdin, qTempDir, qRz, qFiles, qSeen, qSent,
                   qPanic, QOther>>

\* ProcessData: l.rzStdin.Write(clean). The field is read again: a nil
\* handle panics; a closed pipe or an exited rz gives a write error, and
\* ProcessData calls completeTransfer.
QWrite ==
    /\ qPc["rd"] = "rd_write"
    /\ IF qStdin = "nil"
       THEN qPanic' = TRUE /\ QGoto("rd", "dead")
       ELSE /\ QGoto("rd", IF qStdin = "open" /\ qRz = "running"
                           THEN "rd_read" ELSE "ct_start")
            /\ UNCHANGED qPanic
    /\ UNCHANGED <<qActive, qStdin, qTempDir, qRz, qFiles, qSeen, qSent,
                   qChunks, QOther>>

\* monitorRz: rzCmd.Wait() returns.
QMonWait ==
    /\ qPc["mon"] = "mon_wait"
    /\ qRz = "exited"
    /\ QGoto("mon", "mon_check")
    /\ UNCHANGED <<qActive, qStdin, qTempDir, qRz, qFiles, qSeen, qSent,
                   qChunks, qPanic, QOther>>

\* monitorRz: if l.active { l.completeTransfer() }
QMonCheck ==
    /\ qPc["mon"] = "mon_check"
    /\ QGoto("mon", IF qActive THEN "ct_start" ELSE "done")
    /\ UNCHANGED <<qActive, qStdin, qTempDir, qRz, qFiles, qSeen, qSent,
                   qChunks, qPanic, QOther>>

\* completeTransfer: l.active = false; l.buffer reset.
QCompleteStart(t) ==
    /\ qPc[t] = "ct_start"
    /\ qActive' = FALSE
    /\ QGoto(t, "ct_stdin")
    /\ UNCHANGED <<qStdin, qTempDir, qRz, qFiles, qSeen, qSent, qChunks,
                   qPanic, QOther>>

\* completeTransfer and Cancel: if l.rzStdin != nil { Close() ...
QCloseStdin(t) ==
    /\ qPc[t] \in {"ct_stdin", "cn_stdin"}
    /\ IF qStdin = "nil"
       THEN QGoto(t, IF qPc[t] = "ct_stdin" THEN "ct_list" ELSE "cn_kill")
            /\ UNCHANGED qStdin
       ELSE QGoto(t, IF qPc[t] = "ct_stdin" THEN "ct_nil" ELSE "cn_nil")
            /\ qStdin' = "closed"
    /\ UNCHANGED <<qActive, qTempDir, qRz, qFiles, qSeen, qSent, qChunks,
                   qPanic, QOther>>

\* ... l.rzStdin = nil }
QNilStdin(t) ==
    /\ qPc[t] \in {"ct_nil", "cn_nil"}
    /\ qStdin' = "nil"
    /\ QGoto(t, IF qPc[t] = "ct_nil" THEN "ct_list" ELSE "cn_kill")
    /\ UNCHANGED <<qActive, qTempDir, qRz, qFiles, qSeen, qSent, qChunks,
                   qPanic, QOther>>

\* completeTransfer after its sleep: os.ReadDir(l.tempDir) when the
\* directory is set.
QCompleteList(t) ==
    /\ qPc[t] = "ct_list"
    /\ IF qTempDir
       THEN qSeen' = [qSeen EXCEPT ![t] = qFiles] /\ QGoto(t, "ct_send")
       ELSE UNCHANGED qSeen /\ QGoto(t, "ct_kill")
    /\ UNCHANGED <<qActive, qStdin, qTempDir, qRz, qFiles, qSent, qChunks,
                   qPanic, QOther>>

\* completeTransfer: sendFileToClient for each file listed that can still
\* be read, then os.RemoveAll and l.tempDir = "".
QCompleteSend(t) ==
    /\ qPc[t] = "ct_send"
    /\ IF qSeen[t] > 0
       THEN /\ qSent' = IF qFiles > 0 THEN qSent + 1 ELSE qSent
            /\ qSeen' = [qSeen EXCEPT ![t] = @ - 1]
            /\ UNCHANGED <<qPc, qTempDir, qFiles>>
       ELSE /\ qTempDir' = FALSE
            /\ qFiles' = 0
            /\ QGoto(t, "ct_kill")
            /\ UNCHANGED <<qSent, qSeen>>
    /\ UNCHANGED <<qActive, qStdin, qRz, qChunks, qPanic, QOther>>

\* completeTransfer and Cancel: kill rz if the handle is set.
QKill(t) ==
    /\ qPc[t] \in {"ct_kill", "cn_kill"}
    /\ qRz' = "exited"
    /\ QGoto(t, IF qPc[t] = "ct_kill" THEN "done" ELSE "cn_rm")
    /\ UNCHANGED <<qActive, qStdin, qTempDir, qFiles, qSeen, qSent, qChunks,
                   qPanic, QOther>>

\* Cancel: return when not active; else l.active = false and the cancel
\* bytes are sent to the remote.
QCancel ==
    /\ qPc["can"] = "cn_idle"
    /\ IF qActive
       THEN qActive' = FALSE /\ QGoto("can", "cn_stdin")
       ELSE UNCHANGED qActive /\ QGoto("can", "done")
    /\ UNCHANGED <<qStdin, qTempDir, qRz, qFiles, qSeen, qSent, qChunks,
                   qPanic, QOther>>

\* Cancel: os.RemoveAll(l.tempDir); l.tempDir = ""
QCancelRemove ==
    /\ qPc["can"] = "cn_rm"
    /\ qTempDir' = FALSE
    /\ qFiles' = 0
    /\ QGoto("can", "done")
    /\ UNCHANGED <<qActive, qStdin, qRz, qSeen, qSent, qChunks, qPanic, QOther>>

InitRace ==
    /\ KeepaliveIdle
    /\ RaceIdle
    /\ GraceIdle
    /\ ResizeIdle
    /\ NormIdle
    /\ AnsiIdle
    /\ SessionIdle
    /\ TelnetIdle
    /\ ZmodemIdle
    /\ LegacyIdle
    /\ PreambleIdle
    /\ ConnectIdle

NextRace ==
    \/ QRzExit \/ QCheck \/ QWrite \/ QMonWait \/ QMonCheck
    \/ QCancel \/ QCancelRemove
    \/ \E t \in RaceTasks :
           \/ QCompleteStart(t) \/ QCloseStdin(t) \/ QNilStdin(t)
           \/ QCompleteList(t) \/ QCompleteSend(t) \/ QKill(t)

SpecRace == InitRace /\ [][NextRace]_vars

----------------------------------------------------------------------------
(* Harness for the grace window before a transfer activates: one           *)
(* iteration of readTelnet per chunk, with a clock (SpecGrace)             *)

GraceSeconds == 5
MaxGraceTime == 7
MaxGraceChunks == 3

GOther == <<lvars, pvars, kvars, nvars, avars, svars, tvars, zvars, rvars, qvars, uvars>>

GraceChunks ==
    { <<UpperA>>,
      <<STAR, STAR, CAN, UpperB, DIGIT0, DIGIT0>>,
      <<LowerR, LowerZ, CR>>,
      <<CAN, UpperB, DIGIT0, DIGIT0>> }

\* A window that every signature chunk starts again.
armSuppressAlways(suppress, until, sig, now) ==
    IF sig THEN [suppress |-> TRUE, until |-> now + GraceSeconds]
    ELSE [suppress |-> suppress, until |-> until]

\* readTelnet: if hasZmodemSignature && receiver not active
\*                 { if !c.suppressZmodem { set it; suppressUntil = now + 5 s } }
armSuppress(suppress, until, sig, now) ==
    IF sig /\ ~suppress THEN [suppress |-> TRUE, until |-> now + GraceSeconds]
    ELSE [suppress |-> suppress, until |-> until]

\* ProcessData as readTelnet sees it: the receiver afterwards and whether
\* the chunk was consumed. canStart: startRz succeeds.
graceProcessData(active, buf, ch, canStart) ==
    IF active THEN [active |-> TRUE, buf |-> buf, consumed |-> TRUE]
    ELSE IF findZmodemStartIndex(buf \o ch).ok
    THEN IF canStart THEN [active |-> TRUE, buf |-> <<>>, consumed |-> TRUE]
         ELSE [active |-> FALSE, buf |-> <<>>, consumed |-> FALSE]
    ELSE [active |-> FALSE, buf |-> trimLookback(buf \o ch), consumed |-> FALSE]

\* One iteration of the read loop for the chunk ch.
GChunk ==
    /\ gChunks < MaxGraceChunks
    /\ \E ch \in GraceChunks, canStart \in BOOLEAN :
        LET sig   == hasZmodemSignature(ch) /\ ~gActive
            armed == armSuppress(gSuppress, gUntil, sig, gNow)
            pd    == graceProcessData(gActive, gBuf, ch, canStart)
            clean == IF pd.consumed THEN <<>>
                     ELSE processTelnetData(ch, [charset |-> "CP437",
                              termCols |-> DefaultCols, termRows |-> DefaultRows,
                              tn |-> NoTn]).clean
            sup   == armed.suppress /\ ~(gNow > armed.until \/ pd.active)
            win   == IF sig /\ ~gWin.open THEN [open |-> TRUE, start |-> gNow]
                     ELSE gWin
        IN  /\ gSuppress' = sup
            /\ gUntil' = armed.until
            /\ gActive' = pd.active
            /\ gBuf' = pd.buf
            /\ gLast' = [at |-> gNow, win |-> win, active |-> pd.active,
                         shown |-> clean,
                         out |-> displayData(pd.consumed, <<>>, clean, pd.active, sup)]
            /\ gWin' = IF win.open /\ (pd.active \/ gNow > win.start + GraceSeconds)
                       THEN NoWindow ELSE win
    /\ gChunks' = gChunks + 1
    /\ UNCHANGED <<gNow, GOther>>

\* A second passes.
GTick ==
    /\ gNow < MaxGraceTime
    /\ gNow' = gNow + 1
    /\ UNCHANGED <<gSuppress, gUntil, gActive, gBuf, gWin, gLast, gChunks, GOther>>

\* The transfer ends (completeTransfer or Cancel on another goroutine).
GTransferEnds ==
    /\ gActive
    /\ gActive' = FALSE
    /\ gBuf' = <<>>
    /\ UNCHANGED <<gNow, gSuppress, gUntil, gWin, gLast, gChunks, GOther>>

InitGrace ==
    /\ KeepaliveIdle
    /\ GraceIdle
    /\ RaceIdle
    /\ ResizeIdle
    /\ NormIdle
    /\ AnsiIdle
    /\ SessionIdle
    /\ TelnetIdle
    /\ ZmodemIdle
    /\ LegacyIdle
    /\ PreambleIdle
    /\ ConnectIdle

NextGrace == GChunk \/ GTick \/ GTransferEnds

SpecGrace == InitGrace /\ [][NextGrace]_vars

----------------------------------------------------------------------------
(* Harness for the keepalive goroutine of handleWebSocket                  *)
(* (SpecKeepalive)                                                         *)

MaxPings == 3
MaxKaMsgs == 3

UOther == <<lvars, pvars, kvars, nvars, avars, svars, tvars, zvars, rvars,
            qvars, gvars>>

\* The non-blocking send of disconnect on the unbuffered c.done: it is
\* received when the keepalive goroutine is blocked in its select, and
\* falls through to `default` otherwise.
signalDone(state) ==
    IF state = "select" THEN [state |-> "done", dropped |-> FALSE]
    ELSE [state |-> state, dropped |-> state # "done"]

\* case <-ticker.C
KaTick ==
    /\ kaState = "select"
    /\ kaTicker = "running"
    /\ kaPings < MaxPings
    /\ kaState' = "ping"
    /\ UNCHANGED <<kaTicker, kaWs, kaHandler, kaDropped, kaPings, kaMsgs, UOther>>

\* conn.WriteMessage(PingMessage): an error ends the goroutine; the write
\* to a closed connection fails.
KaPing ==
    /\ kaState = "ping"
    /\ \E ok \in BOOLEAN :
        /\ ok => kaWs = "open"
        /\ kaState' = IF ok THEN "select" ELSE "done"
        /\ kaPings' = IF ok THEN kaPings + 1 ELSE kaPings
    /\ UNCHANGED <<kaTicker, kaWs, kaHandler, kaDropped, kaMsgs, UOther>>

\* The handler reads a message that is not `disconnect` and handles it.
KaMessage ==
    /\ kaHandler = "loop"
    /\ kaMsgs < MaxKaMsgs
    /\ kaMsgs' = kaMsgs + 1
    /\ UNCHANGED <<kaState, kaTicker, kaWs, kaHandler, kaDropped, kaPings, UOther>>

\* A read loop or sendJSON calls disconnect while the handler goes on.
KaOtherDisconnect ==
    /\ kaHandler = "loop"
    /\ kaMsgs < MaxKaMsgs
    /\ kaMsgs' = kaMsgs + 1
    /\ kaState' = signalDone(kaState).state
    /\ kaDropped' = (kaDropped \/ signalDone(kaState).dropped)
    /\ UNCHANGED <<kaTicker, kaWs, kaHandler, kaPings, UOther>>

\* The handler reads `disconnect`, or its read fails: client.disconnect().
KaDisconnect ==
    /\ kaHandler = "loop"
    /\ kaState' = signalDone(kaState).state
    /\ kaDropped' = (kaDropped \/ signalDone(kaState).dropped)
    /\ kaHandler' = "returning"
    /\ UNCHANGED <<kaTicker, kaWs, kaPings, kaMsgs, UOther>>

\* The handler returns: the deferred ticker.Stop() and conn.Close().
KaReturn ==
    /\ kaHandler = "returning"
    /\ kaHandler' = "returned"
    /\ kaTicker' = "stopped"
    /\ kaWs' = "closed"
    /\ UNCHANGED <<kaState, kaDropped, kaPings, kaMsgs, UOther>>

InitKeepalive ==
    /\ KeepaliveIdle
    /\ GraceIdle
    /\ RaceIdle
    /\ ResizeIdle
    /\ NormIdle
    /\ AnsiIdle
    /\ SessionIdle
    /\ TelnetIdle
    /\ ZmodemIdle
    /\ LegacyIdle
    /\ PreambleIdle
    /\ ConnectIdle

KeepaliveStep == KaTick \/ KaPing

NextKeepalive ==
    KaTick \/ KaPing \/ KaMessage \/ KaOtherDisconnect \/ KaDisconnect \/ KaReturn

SpecKeepalive == InitKeepalive /\ [][NextKeepalive]_vars

----------------------------------------------------------------------------
(* Harness for the legacy conversion stage of readTelnet (SpecLegacy)      *)

MaxLegacyLen == 2
MaxLegacyCalls == 2

\* The charset names a session can hold when a chunk is converted here.
LegacyCharsets == {"PETSCIIU", "PETSCIIL", "ATASCII", "petsciiu"}

\* 0x93 clear, 0x13 home, 0x11 down, CR, LF, the two mode switches, 'A',
\* 0x1C (PETSCII red, ATASCII up), 0x9B (PETSCII light gray, ATASCII EOL).
LegacyAlphabet == {147, 19, 17, CR, LF, SO, 142, UpperA, 28, 155}

\* n bytes: k times 'A', then the filler f.
Mix(k, n, f) == [i \in 1..n |-> IF i <= k THEN UpperA ELSE f]

LegacyExamples ==
    {<<b>> : b \in 0..255}
        \cup {Mix(k, n, f) : k \in 0..20, n \in {7, 20}, f \in {BEL, 193}}
        \cup {<<ESC, LBRACK, DIGIT1, UpperM, UpperA, UpperA, UpperA>>,
              <<CR, CR, CR, CR, UpperA, CR, CR, LF>>,
              <<CR, CR, CR>>, <<CR, CR, LF>>, <<147, UpperA, 17>>,
              <<UpperA, SO, UpperA>>, <<UpperA, 142, UpperA>>}

\* The first chunk of a run.
LegacyChunks ==
    (SeqsUpTo(LegacyAlphabet, MaxLegacyLen) \cup LegacyExamples) \ {<<>>}

\* The chunks that follow it: one byte each.
LaterChunks == {<<b>> : b \in LegacyAlphabet}

\* readTelnet converts one chunk of display bytes.
LegacyChunk ==
    /\ lCalls < MaxLegacyCalls
    /\ \E data \in (IF lCalls = 0 THEN LegacyChunks ELSE LaterChunks) :
           LET r == convertStage(data, lCharset, lForce)
           IN  /\ lData' = data
               /\ lBefore' = lCharset
               /\ lRes' = [r EXCEPT !.out = outputGuard(r.out)]
               /\ lCharset' = r.charset
    /\ lPrev' = IF Len(lData) > 0 /\ lData[Len(lData)] = CR
                THEN [data |-> lData, before |-> lBefore, ctl |-> lRes.ctl]
                ELSE NoPrevChunk
    /\ lCalls' = lCalls + 1
    /\ UNCHANGED <<lForce, pvars, nvars, avars, svars, tvars, zvars, kvars, yvars>>

\* A setCharset message of the browser.
LegacySetCharset ==
    /\ \E cs \in LegacyCharsets : lCharset' = cs
    /\ UNCHANGED <<lForce, lData, lBefore, lRes, lPrev, lCalls,
                   pvars, nvars, avars, svars, tvars, zvars, kvars, yvars>>

\* playCapture sets forceLegacyFull while it plays and restores it.
LegacyPlayCapture ==
    /\ lForce' = ~lForce
    /\ UNCHANGED <<lCharset, lData, lBefore, lRes, lPrev, lCalls,
                   pvars, nvars, avars, svars, tvars, zvars, kvars, yvars>>

InitLegacy ==
    /\ lCharset \in LegacyCharsets
    /\ lForce = FALSE
    /\ lData = <<>> /\ lBefore = lCharset
    /\ lRes = NoLegacyResult /\ lCalls = 0
    /\ lPrev = NoPrevChunk
    /\ NormIdle
    /\ AnsiIdle
    /\ SessionIdle
    /\ TelnetIdle
    /\ ZmodemIdle
    /\ PreambleIdle
    /\ ConnectIdle
    /\ LaterIdle

NextLegacy == LegacyChunk \/ LegacySetCharset \/ LegacyPlayCapture

SpecLegacy == InitLegacy /\ [][NextLegacy]_vars

----------------------------------------------------------------------------
(* Harness for the preamble buffering of readTelnet (SpecPreamble)         *)

MaxPreChunks == 3

PreCharsets == {"PETSCIIU", "ATASCII", "CP437", "petsciiu"}

\* A chunk of text of more than half the size bound.
LongPreamble == [i \in 1..(PreambleMax \div 2 + 1) |-> UpperA]

PreChunks ==
    {<<UpperA>>, <<147>>, <<FF>>, <<SO>>, LongPreamble}

\* readTelnet handles one chunk of display bytes: the preamble stage, and
\* for the bytes that go on the mode switches of the control translation.
PreChunk ==
    /\ pCalls < MaxPreChunks
    /\ \E data \in PreChunks :
           LET r == preambleStage(data, pCharset, pState)
           IN  /\ pLast' = data
               /\ pState' = r.st
               /\ pSent' = [send |-> r.send, data |-> r.data]
               /\ pCharset' = IF r.send
                               THEN charsetAfterSwitches(r.data, pCharset)
                               ELSE pCharset
    /\ pCalls' = pCalls + 1
    /\ pOp' = "chunk"
    /\ UNCHANGED <<lvars, nvars, avars, svars, tvars, zvars, kvars, yvars>>

\* A setCharset or connect message of the browser: setCharsetAndAdjust.
PreSetCharset ==
    /\ \E cs \in PreCharsets :
           /\ pCharset' = cs
           /\ pState' = armPreamble(cs, pState)
    /\ pOp' = "set"
    /\ UNCHANGED <<pLast, pSent, pCalls, lvars, nvars, avars, svars, tvars,
                   zvars, kvars, yvars>>

\* A connectToBBS message of the browser for a directory entry with the
\* encoding enc: connectToBBS assigns c.charset itself.
PreConnectToBBS ==
    /\ \E enc \in PreCharsets : pCharset' = enc
    /\ pOp' = "bbs"
    /\ UNCHANGED <<pState, pLast, pSent, pCalls, lvars, nvars, avars, svars,
                   tvars, zvars, kvars, yvars>>

\* More than 1.5 s have passed since preambleStart.
PreTick ==
    /\ ~pState.expired
    /\ pState' = [pState EXCEPT !.expired = TRUE]
    /\ pOp' = "tick"
    /\ UNCHANGED <<pCharset, pLast, pSent, pCalls, lvars, nvars, avars,
                   svars, tvars, zvars, kvars, yvars>>

InitPreamble ==
    /\ pCharset \in PreCharsets
    /\ pState = armPreamble(pCharset, NoPreamble)
    /\ pLast = <<>> /\ pSent = NothingSent
    /\ pOp = "none" /\ pCalls = 0
    /\ NormIdle
    /\ AnsiIdle
    /\ SessionIdle
    /\ TelnetIdle
    /\ ZmodemIdle
    /\ LegacyIdle
    /\ ConnectIdle
    /\ LaterIdle

NextPreamble == PreChunk \/ PreSetCharset \/ PreConnectToBBS \/ PreTick

SpecPreamble == InitPreamble /\ [][NextPreamble]_vars

----------------------------------------------------------------------------
(* Claims about ProcessANSIData (SpecAnsi)                                 *)

AnsiAllFed == aPos = Len(aStream)

\* C3: for every stream and every way of splitting it into consecutive
\* chunks, the concatenation of the outputs ProcessANSIData returns for the
\* chunks equals the output for the whole stream given as one chunk.
C3_ChunkingEquivalent ==
    (AnsiAllFed /\ aWholeDone) => aOut = aWhole

\* C4: when a chunk ends inside an unfinished escape sequence, the bytes
\* kept in the carry buffer (sequenceBuffer) are not part of the output
\* returned for that chunk.
C4_CarryNotEmitted ==
    (aPos > 0 /\ Len(aProc.sequenceBuffer) > 0)
        => ~IsSuffix(aProc.sequenceBuffer, aLast)

\* C5: no byte of the input is dropped: every byte of a stream of 7-bit
\* bytes without form feed appears, in order, in the output for the stream
\* (rewrites only insert bytes); so an OSC sequence ended by ESC \ comes out
\* with its body, and an ESC does not discard what was buffered before it.
C5_NoByteDropped ==
    aWholeDone => IsSubsequence(aStream, aWhole)

----------------------------------------------------------------------------
(* Claims about normalizeCSISGRAny (SpecNorm)                              *)

\* C9: normalizeCSISGRAny is idempotent: applying it to its own output
\* gives that output again.
C9_NormalizeIdempotent ==
    nPhase = "twice" => nOut2 = nOut

\* C9 witness: a second pass has run on an output the first pass changed.
C9_Witness ==
    nPhase = "twice" /\ nOut # nIn /\ Len(nIn) > 5

\* s is ESC [ params F with params digits and semicolons only.
IsPlainCSI(s) ==
    /\ Len(s) >= 3
    /\ s[1] = ESC
    /\ s[2] = LBRACK
    /\ \A k \in 3..(Len(s) - 1) : IsParamByte(s[k])
    /\ IsFinalByte(s[Len(s)])

\* s with a final 'M' replaced by 'm' and a final 'j' by 'J'.
WithFixedFinal(s) ==
    [s EXCEPT ![Len(s)] = IF @ = UpperM THEN LowerM
                          ELSE IF @ = LowerJ THEN UpperJ
                          ELSE @]

\* C10: for a 7-bit CSI sequence ESC [ params F with digits/semicolons
\* parameters the output is the sequence with final 'M' -> 'm', 'j' -> 'J',
\* every other final byte kept.
C10_PlainCSIFinalFixed ==
    (nPhase # "in" /\ IsPlainCSI(nIn)) => nOut = WithFixedFinal(nIn)

\* C10 witness: ESC[31M has been normalized to ESC[31m.
C10_Witness ==
    /\ nPhase = "once"
    /\ nIn = <<ESC, LBRACK, DIGIT3, DIGIT1, UpperM>>
    /\ nOut = <<ESC, LBRACK, DIGIT3, DIGIT1, LowerM>>

\* Every ESC [ of s is followed by '?'.
AllCSIPrivate(s) ==
    \A i \in 1..(Len(s) - 1) :
        (s[i] = ESC /\ s[i + 1] = LBRACK) => (i + 2 <= Len(s) /\ s[i + 2] = QMARK)

\* C11: a CSI sequence whose first byte after ESC [ is '?' passes through
\* normalizeCSISGRAny unchanged, whatever its final byte is: an input in
\* which every ESC [ is followed by '?' is returned byte for byte.
C11_PrivateCSIUnchanged ==
    (nPhase # "in" /\ AllCSIPrivate(nIn)) => nOut = nIn

\* C11 witness: the private sequence ESC[?M, ending in 'M', has been
\* normalized and came out as it went in.
C11_Witness ==
    /\ nPhase = "once"
    /\ nIn = <<ESC, LBRACK, QMARK, UpperM>>
    /\ nOut = nIn

----------------------------------------------------------------------------
(* Claims about processTelnetData (SpecTelnet)                             *)

\* The plain bytes of the chunk, in order.
RECURSIVE PlainOf(_)
PlainOf(its) ==
    IF its = <<>> THEN <<>>
    ELSE (IF Head(its).kind = "plain" THEN Head(its).bytes ELSE <<>>)
             \o PlainOf(Tail(its))

\* Every item of the chunk is complete.
AllComplete(its) == \A i \in 1..Len(its) : its[i].kind # "open"

\* C12: for a chunk made of plain bytes, 3-byte option commands and complete
\* subnegotiations, the clean output of processTelnetData is exactly the
\* plain bytes outside those sequences, in order.
C12_CleanIsPlainBytes ==
    (tPhase = "done" /\ AllComplete(tItems)) => tRes.clean = PlainOf(tItems)

\* The terminal-type name C13 gives for a charset: "PETSCII", "ATASCII",
\* "ansi".
ClaimedTermType(cs) ==
    IF cs \in {"PETSCIIU", "PETSCIIL"} THEN <<80, 69, 84, 83, 67, 73, 73>>
    ELSE IF cs = "ATASCII" THEN <<65, 84, 65, 83, 67, 73, 73>>
    ELSE <<97, 110, 115, 105>>

\* C13: when the chunk contains IAC SB TERMINAL-TYPE SEND IAC SE,
\* processTelnetData writes IAC SB 24 IS <type> IAC SE to the remote, with
\* <type> chosen by the charset.
C13_TerminalTypeAnswered ==
    (tPhase = "done" /\ \E i \in 1..Len(tItems) : tItems[i] = TTypeSend)
        => Contains(tRes.response,
                    <<IAC, SB, TELOPT_TTYPE, TELQUAL_IS>>
                        \o ClaimedTermType(tCs) \o <<IAC, SE>>)

\* C14: doubling every 0xFF of a byte sequence and decoding the result as
\* one chunk through processTelnetData gives the sequence back.
C14_EscapeRoundTrip ==
    tPhase = "back" => tRes.clean = tRaw

\* C14 witness: IAC DO 'A' went out as IAC IAC DO 'A' and came back as
\* IAC DO 'A'.
C14_Witness ==
    /\ tPhase = "back"
    /\ tRaw = <<IAC, DO, UpperA>>
    /\ tWire = <<IAC, IAC, DO, UpperA>>
    /\ tRes.clean = tRaw

\* The reply C15 gives for the command IAC cmd opt.
ClaimedReply(cmd, opt, c) ==
    IF cmd = DO
    THEN IF opt = TELOPT_BINARY THEN <<IAC, WILL, opt>>
         ELSE IF opt = TELOPT_NAWS
         THEN <<IAC, WILL, opt>> \o buildNAWSSB(c.termCols, c.termRows)
         ELSE IF opt = TELOPT_TTYPE THEN <<IAC, WILL, opt>>
         ELSE <<IAC, WONT, opt>>
    ELSE IF cmd = WILL
    THEN IF opt = TELOPT_BINARY THEN <<IAC, DO, opt>> ELSE <<IAC, DONT, opt>>
    ELSE IF cmd = DONT THEN <<IAC, WONT, opt>>
    ELSE <<IAC, DONT, opt>>

\* The replies to the option commands of the chunk, in arrival order.
RECURSIVE ClaimedReplies(_, _)
ClaimedReplies(its, c) ==
    IF its = <<>> THEN <<>>
    ELSE (IF Head(its).kind = "cmd"
          THEN ClaimedReply(Head(its).cmd, Head(its).opt, c)
          ELSE <<>>) \o ClaimedReplies(Tail(its), c)

\* C15: processTelnetData writes exactly one reply for each option command
\* of the chunk, in arrival order, as the table of the claim gives it; so
\* for a chunk in which no subnegotiation asks for an answer the bytes
\* written are the replies to its commands.
C15_OneReplyPerCommand ==
    (tPhase = "done" /\ \A i \in 1..Len(tItems) : tItems[i] # TTypeSend)
        => tRes.response = ClaimedReplies(tItems, TelnetView(tCs))

\* The chunk is plain bytes and option commands and ends in a subnegotiation
\* that is not closed.
EndsInOpenSub(its) ==
    /\ Len(its) > 0
    /\ its[Len(its)].kind = "open"
    /\ \A i \in 1..(Len(its) - 1) : its[i].kind \in {"plain", "cmd"}

\* C16: when the chunk ends inside a subnegotiation, every byte from its
\* IAC SB on is dropped: the clean output is the plain bytes before it.
C16_OpenSubnegDropped ==
    (tPhase = "done" /\ EndsInOpenSub(tItems)) => tRes.clean = PlainOf(tItems)

----------------------------------------------------------------------------
(* Claims about the lookback buffer (SpecZmodem)                           *)

\* The 0-based offsets at which some header pattern occurs in buf.
PatternOffsets(buf) ==
    {k - 1 : k \in {j \in 1..Len(buf) :
                      \E n \in 1..Len(headerPatterns) :
                          /\ j + Len(headerPatterns[n]) - 1 <= Len(buf)
                          /\ SubSeq(buf, j, j + Len(headerPatterns[n]) - 1)
                                 = headerPatterns[n]}}

\* C17: findZmodemStartIndex returns the lowest offset at which any header
\* pattern occurs in the buffer, whatever the place of that pattern in the
\* list, and reports no match when none occurs (so for a buffer that holds
\* only the typed command rz\r).
C17_LowestOffsetWins ==
    zCalls > 0 =>
        LET offs == PatternOffsets(zSeen)
        IN  IF offs = {} THEN ~zFound.ok
            ELSE /\ zFound.ok
                 /\ zFound.idx \in offs
                 /\ \A o \in offs : zFound.idx <= o

\* C17 witness: the buffer holds the last pattern of the list at offset 0
\* and an earlier-listed one at offset 3; offset 0 was returned.
C17_Witness ==
    /\ zSeen = <<CAN, UpperC, EOT, CAN, UpperB, DIGIT0, DIGIT0>>
    /\ zFound = [idx |-> 0, ok |-> TRUE]

\* C20: after every ProcessData call made while the receiver is inactive
\* the lookback buffer holds at most 1024 bytes, whatever the sizes of the
\* chunks.
C20_LookbackCapped ==
    zCalls > 0 => Len(zBuf) <= LookbackMax

----------------------------------------------------------------------------
(* Claims about the session (Spec)                                         *)

\* Some entry of the list has the host and the protocol of m up to case and
\* exactly the port of m.
MatchesApproved(list, m) ==
    \E i \in DOMAIN list :
        /\ ToLowerStr(list[i].Host) = ToLowerStr(m.Host)
        /\ list[i].Port = m.Port
        /\ ToLowerStr(list[i].Protocol) = ToLowerStr(m.Protocol)

\* The read loop of handleWebSocket is handling a connect message whose
\* target is not on the list.
RejectedConnect ==
    /\ loc["ws"].m.Type = "connect"
    /\ ~MatchesApproved(ApprovedBBSList, loc["ws"].m)

C1_Step ==
    /\ \A d \in dials' \ dials : MatchesApproved(ApprovedBBSList, d)
    /\ (pc["d1"] = "idle" /\ pc'["d1"] # "idle") =>
           MatchesApproved(ApprovedBBSList, loc'["d1"].m)
    /\ (pc["ws"] = "ws_read" /\ loc'["ws"].m.Type = "connect") =>
           IF MatchesApproved(ApprovedBBSList', loc'["ws"].m)
           THEN pc'["ws"] \in {"ws_setcs", "ws_dial"}
           ELSE /\ pc'["ws"] = "sj_lock"
                /\ loc'["ws"].msg = "error"
                /\ stk'["ws"] = <<"ws_read">>
                /\ <<charset, termSize, telnet, sshConn, dials, pc["d1"]>>' =
                   <<charset, termSize, telnet, sshConn, dials, pc["d1"]>>
    /\ (RejectedConnect /\ pc'["ws"] # pc["ws"]) =>
           /\ pc["ws"] \in {"sj_lock", "sj_write"}
           /\ <<charset, termSize, telnet, sshConn, dials, pc["d1"]>>' =
              <<charset, termSize, telnet, sshConn, dials, pc["d1"]>>

\* C1: handling a connect message starts a dial only for a target that some
\* entry of ApprovedBBSList matches (host and protocol up to case, port
\* exactly); for any other target the handler queues an `error` message,
\* starts no dial, and no step of it changes the charset, the terminal size
\* or the telnet and SSH handles.
C1_ConnectGate == [][C1_Step]_vars

\* A connect for an unlisted port that asks for PETSCIIU is being answered
\* with `error` while a telnet connection dialled for an approved target is
\* up and the charset is still CP437.
C1_Witness ==
    /\ pc["ws"] = "sj_write"
    /\ loc["ws"].msg = "error"
    /\ RejectedConnect
    /\ loc["ws"].m.Charset = "PETSCIIU"
    /\ charset = "CP437"
    /\ telnet # 0
    /\ dials # {}

\* The telnet read loop t is sending a `data` message.
SendingData(t) ==
    /\ pc[t] \in {"sj_lock", "sj_write"}
    /\ loc[t].msg = "data"
    /\ Head(stk[t]) = "rd_top"

C6_DisconnectReturns ==
    \A t \in Tasks : ~(mu = t /\ pc[t] \in {"sj_lock", "dc_lock", "cn_send", "sr_lock"})

\* C7: a disconnect runs to completion under the session lock in every
\* session state: the task that holds Client.mu can always take its next
\* step (cancel the transfer, then close the connections and unlock).
C7_DisconnectRunsToCompletion ==
    \A t \in Tasks : (mu = t /\ pc[t] \in {"cn_send", "dc_close"}) => ENABLED TaskStep(t)

\* C8: no task holds Client.mu while it writes to the browser WebSocket
\* (sj_write), closes the remote connection (dc_close), or writes to the
\* remote and kills rz (cn_send).
C8_NoIOUnderLock ==
    \A t \in Tasks : mu = t => pc[t] \notin {"sj_write", "dc_close", "cn_send"}

\* Task t takes the step of ProcessData in which a signature is found in
\* the lookback buffer of the idle receiver and startRz fails: ProcessData
\* returns without a transfer having started.
SpawnFailedStep(t) ==
    /\ pc[t] = "rd_pd"
    /\ zr.present /\ ~zr.active
    /\ findZmodemStartIndex(zr.buffer \o loc[t].raw).ok
    /\ pc'[t] = "rd_clean"

C18_Step ==
    \A t \in DialTasks :
        SpawnFailedStep(t) =>
            /\ loc'[t].rem = loc[t].raw
            /\ ~loc'[t].consumed
            /\ zr'.buffer = <<>>
            /\ ~zr'.active
            /\ loc'[t].msg = ""
            /\ stk'[t] = stk[t]

\* C18: when a signature is found while the receiver is idle and starting
\* rz fails, ProcessData returns the chunk it was given with consumed =
\* false, the lookback buffer is empty, the receiver is still inactive and
\* no message (downloadStart, zmodemStatus) is queued for the browser.
C18_SpawnFailurePassesThrough == [][C18_Step]_vars

\* C18 witness: the chunk with the ZRQINIT header has come back from
\* ProcessData unconsumed, with the buffer emptied and no rz started.
C18_Witness ==
    /\ pc["d1"] = "rd_clean"
    /\ loc["d1"].raw = <<STAR, STAR, CAN, UpperB, DIGIT0, DIGIT0>>
    /\ loc["d1"].rem = loc["d1"].raw
    /\ ~loc["d1"].consumed
    /\ zr.present /\ ~zr.active
    /\ zr.buffer = <<>>
    /\ rz = "none" /\ ~zr.rzStdin

\* C19: the bytes ProcessData handles for an active receiver are written to
\* the stdin of rz: when the receiver is active and ProcessData is about to
\* write the lookback buffer from the signature on (pd_feed) or is given a
\* chunk (rd_pd), the pipe to rz is there, so that the bytes are written and
\* (nil, true) is returned.
C19_ActiveBytesPiped ==
    \A t \in DialTasks :
        (zr.active /\ pc[t] \in {"pd_feed", "rd_pd"}) => zr.rzStdin

\* The transfer is active and rz has exited; monitorRz has not yet looked.
RzGoneWhileActive == zr.active /\ rz = "exited"

\* The receiver is inactive and the temp directory has been removed.
TransferCleanedUp == ~zr.active /\ ~zr.tempDir

\* With files left by rz in the temp directory, the transfer is ended by
\* completeTransfer, which sends them.
C21_Step ==
    (RzGoneWhileActive /\ tmpFiles > 0 /\ ~zr'.active) =>
        \E t \in Tasks : pc[t] # "ct_files" /\ pc'[t] = "ct_files"

C22_Step ==
    /\ zr'.active => pc'["wd"] = "wd_tick"
    /\ (pc["wd"] = "wd_tick" /\ pc'["wd"] # "wd_tick") => ~zr'.active

\* C22: while a transfer is active the watchdog is in its loop, so that the
\* tick that finds the inactivity window (90 s) or the maximum duration
\* (30 min) exceeded cancels the transfer; the watchdog leaves its loop only
\* at a tick that finds the transfer over or cancels it, and the receiver is
\* inactive after that tick.
C22_WatchdogCancels == [][C22_Step]_vars

----------------------------------------------------------------------------
(* Claims about the legacy conversion (SpecLegacy)                         *)

\* A chunk has been translated under a PETSCII variant.
PetsciiTranslated == lCalls > 0 /\ lBefore \in {"PETSCIIU", "PETSCIIL"}

\* The PETSCII colour codes.
PetsciiColours ==
    {5, 28, 30, 31, 129, 144, 149, 150, 151, 152, 153, 154, 155, 156, 158, 159}

\* ESC [ n m for the SGR foreground codes n.
ForegroundSGR ==
    {<<ESC, LBRACK, DIGIT0 + (n \div 10), DIGIT0 + (n % 10), LowerM>> :
        n \in (30..37) \cup (90..97)}

\* The outputs the table of C23 allows for the byte b, with crPieces those
\* of a 0x0D.
ClaimedPieces(b, crPieces) ==
    CASE b = 147 -> {<<ESC, LBRACK, DIGIT2, UpperJ, ESC, LBRACK, UpperH>>}
      [] b = 19  -> {<<ESC, LBRACK, UpperH>>}
      [] b = 17  -> {<<ESC, LBRACK, UpperB>>}
      [] b = 145 -> {<<ESC, LBRACK, UpperA>>}
      [] b = 29  -> {<<ESC, LBRACK, UpperC>>}
      [] b = 157 -> {<<ESC, LBRACK, UpperD>>}
      [] b = 18  -> {<<ESC, LBRACK, DIGIT7, LowerM>>}
      [] b = 146 -> {<<ESC, LBRACK, DIGIT2, DIGIT7, LowerM>>}
      [] b = 20  -> {<<BS, SPACE, BS>>}
      [] b \in {SI, SO, 142} -> {<<>>}
      [] b \in PetsciiColours -> ForegroundSGR
      [] b = CR  -> crPieces
      [] OTHER   -> {<<b>>}

\* out is the concatenation of one allowed output per byte of data, in
\* order.
RECURSIVE MatchesPieces(_, _, _)
MatchesPieces(data, out, crPieces) ==
    IF data = <<>> THEN out = <<>>
    ELSE \E p \in ClaimedPieces(Head(data), crPieces) :
             /\ Len(p) <= Len(out)
             /\ SubSeq(out, 1, Len(p)) = p
             /\ MatchesPieces(Tail(data), SubSeq(out, Len(p) + 1, Len(out)),
                              crPieces)

\* C23 as stated: under the PETSCII variants the output of
\* translatePETSCIIToANSI is, byte for byte of the chunk and in order, the
\* fixed output of the table for a control or colour byte and the byte
\* itself for every other byte (0x0D among them).
C23_EveryOtherByteUnchanged ==
    PetsciiTranslated => MatchesPieces(lData, lRes.ctl, {<<CR>>})

\* C23 (amended): the same with 0x0D excepted: every byte other than 0x0D
\* gives the fixed output of the table or itself, in order, and each 0x0D
\* gives CR LF, CR or nothing.
C23_FixedControlTable ==
    PetsciiTranslated =>
        MatchesPieces(lData, lRes.ctl, {<<CR, LF>>, <<CR>>, <<>>})

\* C23 witness: 0x93 'A' 0x11 came out as ESC[2J ESC[H 'A' ESC[B.
C23_Witness ==
    /\ PetsciiTranslated
    /\ lData = <<147, UpperA, 17>>
    /\ lRes.ctl = <<ESC, LBRACK, DIGIT2, UpperJ, ESC, LBRACK, UpperH, UpperA,
                    ESC, LBRACK, UpperB>>

\* A chunk has been translated under one of the three legacy variants.
LegacyTranslated ==
    lCalls > 0 /\ lBefore \in {"PETSCIIU", "PETSCIIL", "ATASCII"}

\* C24: under each legacy variant (PETSCIIU, PETSCIIL, ATASCII) the
\* translation of a chunk that ends in 0x0D ends in CR LF.
C24_LoneCRBecomesCRLF ==
    (LegacyTranslated /\ lData[Len(lData)] = CR)
        => IsSuffix(<<CR, LF>>, lRes.ctl)

\* The number of bytes b in s.
CountByte(s, b) == Cardinality({i \in 1..Len(s) : s[i] = b})

\* The indices at which a maximal run of 0x0D bytes ends.
CRRunEnds(s) ==
    {i \in 1..Len(s) : s[i] = CR /\ (i = Len(s) \/ s[i + 1] # CR)}

RECURSIVE ClaimedGlyphs(_, _)
ClaimedGlyphs(data, v) ==
    IF data = <<>> THEN <<>>
    ELSE IF Head(data) = SO THEN ClaimedGlyphs(Tail(data), "PETSCIIL")
    ELSE IF Head(data) = 142 THEN ClaimedGlyphs(Tail(data), "PETSCIIU")
    ELSE <<Glyph(v, Head(data))>> \o ClaimedGlyphs(Tail(data), v)

\* C26: in a PETSCII chunk of letters and mode-switch bytes (0x0E lower
\* case, 0x8E upper case) that goes through the glyph table, the letters
\* before a switch byte are converted with the variant active before it and
\* the letters after it with the variant it selects, which stays selected
\* for the chunks that follow.
C26_SwitchAppliesFromItsPlace ==
    (PetsciiTranslated /\ ~lRes.bypass
        /\ \A i \in 1..Len(lData) : lData[i] \in {UpperA, SO, 142})
        => /\ lRes.out = ClaimedGlyphs(lData, lBefore)
           /\ lCharset = lRes.charset

\* A byte of the printable 7-bit ASCII range 0x20-0x7E.
IsPrintableASCII(b) == b >= 32 /\ b <= 126

----------------------------------------------------------------------------
(* Claims about the preamble buffering (SpecPreamble)                      *)

\* Preamble buffering is freshly armed: active, buffer empty, timer
\* restarted.
FreshlyArmed(st) == st.active /\ st.buf = <<>> /\ ~st.expired

C28_Step ==
    (pCharset' # pCharset /\ IsLegacyCharset(pCharset')) => FreshlyArmed(pState')

\* C28: every step that changes the charset to a legacy variant, a request
\* of the client (setCharset, connect) or an in-band PETSCII mode switch,
\* leaves preamble buffering freshly armed: active, buffer empty, timer
\* restarted.
C28_EveryChangeRearms == [][C28_Step]_vars

\* The chunk has a clear or home control of the charset.
HasClearHome(chunk, cs) ==
    \E i \in 1..Len(chunk) :
        \/ ToUpperCharset(cs) \in {"PETSCIIU", "PETSCIIL"} /\ chunk[i] \in {147, 19}
        \/ ToUpperCharset(cs) = "ATASCII" /\ chunk[i] = FF

C29_Step ==
    (pOp' = "chunk" /\ pCalls' = pCalls + 1
        /\ IsLegacyCharset(pCharset) /\ pState.active)
        => /\ pSent'.send =>
                  \/ HasClearHome(pLast', pCharset)
                  \/ pState.expired
                  \/ Len(pState.buf) + Len(pLast') > PreambleMax
           /\ pSent'.send =>
                  /\ pSent'.data = pState.buf \o pLast'
                  /\ ~pState'.active
           /\ ~pSent'.send => pState'.buf = pState.buf \o pLast'

\* C29: while preamble buffering is armed under a legacy charset, a chunk
\* goes on to a `data` message only if it contains a clear or home control
\* (0x93, 0x13 under PETSCII, 0x0C under ATASCII), or more than 1.5 s have
\* passed since arming, or the withheld bytes and the chunk together exceed
\* 8192 bytes; the bytes that then go on are the withheld chunks followed by
\* this one, in arrival order, each byte once, and buffering is disarmed.
C29_WithheldUntilTrigger == [][C29_Step]_vars

----------------------------------------------------------------------------
(* Claims about repeated connects (SpecConnect)                            *)

\* The goroutine t reads, or is about to read, from the connection c.
ReaderOf(t, c) ==
    \/ kPc[t] = "set" /\ kOwn[t] = c
    \/ kPc[t] = "loop" /\ kTelnet = c
    \/ kPc[t] = "read" /\ kLocal[t] = c

\* C30: whatever connect messages arrive, a second one while a connection
\* is open included, every remote connection is read by exactly one read
\* loop: no connection has been read by the loops started for two different
\* connections, and every open connection has a goroutine that reads it.
C30_OneReaderPerStream ==
    /\ \A c \in 1..kDialled :
           Cardinality({o \in 1..kDialled : <<o, c>> \in kReads}) <= 1
    /\ \A c \in kOpen : \E t \in ConnTasks : ReaderOf(t, c)


----------------------------------------------------------------------------
(* Claims about processCompleteSequence (SpecAnsi)                         *)

\* s is one escape sequence: it starts with ESC, is complete, no proper
\* prefix of it is complete, and no later byte of it starts a sequence or is
\* handled before the sequence buffer.
IsOneSequence(s) ==
    /\ Len(s) >= 2
    /\ s[1] = ESC
    /\ \A k \in 2..Len(s) : s[k] \notin {ESC, FF, SO, SI, C1CSI, C1OSC, C1DCS, C1ST}
    /\ isSequenceComplete(s)
    /\ \A k \in 1..(Len(s) - 1) : ~isSequenceComplete(SubSeq(s, 1, k))

ClearEntireScreen == <<ESC, LBRACK, DIGIT2, UpperJ>>

CursorHome == <<ESC, LBRACK, UpperH>>

\* What the rewriting of one complete sequence is stated to give.
ClaimedSequence(s) ==
    IF s \in {<<ESC, LBRACK, UpperJ>>, <<ESC, LBRACK, UpperK>>, <<ESC, LBRACK, LowerM>>}
    THEN <<ESC, LBRACK, DIGIT0, s[3]>>
    ELSE IF s = ClearEntireScreen THEN s \o CursorHome
    ELSE s

\* C31: ProcessANSIData rewrites the bare ESC[J, ESC[K and ESC[m to ESC[0J,
\* ESC[0K and ESC[0m, emits ESC[H right after the clear-entire-screen
\* sequence ESC[2J, and emits every other complete sequence unchanged.
C31_SequenceRewrites ==
    (aWholeDone /\ IsOneSequence(aStream)) => aWhole = ClaimedSequence(aStream)


----------------------------------------------------------------------------
(* Claims about the terminal size and NAWS (SpecResize)                    *)

AllowedSizes == {<<40, 24>>, <<40, 25>>, <<80, 25>>, <<100, 31>>}

\* C32: after any sequence of resize, setCharset and connect messages the
\* size is one of 40x24, 40x25, 80x25, 100x31; a resize message with any
\* other pair leaves the size unchanged and writes no NAWS.
C32_SizeInAllowList ==
    /\ rSize \in AllowedSizes
    /\ (rOp.type = "resize" /\ rOp.asked \notin AllowedSizes)
           => (rSize = rOp.before /\ rWrote = NoWrite)

\* C32 witness: a resize to a pair off the list was refused while a telnet
\* connection with NAWS was open and the size was 100x31.
C32_Witness ==
    /\ rOp.type = "resize" /\ rOp.asked = <<80, 24>>
    /\ rTelnet # 0 /\ rTn.naws
    /\ rSize = <<100, 31>>

\* The bytes contain a NAWS subnegotiation.
HasNAWSSB(bytes) == Contains(bytes, <<IAC, SB, TELOPT_NAWS>>)

\* C33: when the size changes through an accepted resize or a charset switch
\* while a telnet connection is open on which NAWS has been negotiated, the
\* 9-byte subnegotiation with the new size is written to it; and no NAWS
\* subnegotiation is written to a connection on which NAWS is not negotiated.
C33_NAWSFollowsSize ==
    /\ ( /\ rOp.type \in {"resize", "setCharset"}
         /\ rSize # rOp.before
         /\ rTelnet # 0 /\ rTelnet \in rAgreed )
           => rWrote = [conn |-> rTelnet,
                        bytes |-> <<IAC, SB, TELOPT_NAWS, 0, rSize[1], 0, rSize[2],
                                    IAC, SE>>]
    /\ HasNAWSSB(rWrote.bytes) => rWrote.conn \in rAgreed


----------------------------------------------------------------------------
(* Claims about the tasks that end a transfer (SpecRace)                   *)

\* C34: no interleaving of Cancel or completeTransfer with ProcessData makes
\* ProcessData write through a pipe handle that has been set to nil: the
\* host process never panics.
C34_NoNilPipeWrite == ~qPanic

\* C38: for one transfer the completion handling takes effect at most once:
\* each received file is sent to the browser at most once, also when rz's
\* exit, a write failure in ProcessData and a Cancel happen concurrently.
C38_FileSentAtMostOnce == qSent <= MaxFiles


----------------------------------------------------------------------------
(* Claims about the grace window (SpecGrace)                               *)

\* C37: from the first chunk with a transfer signature seen while no
\* transfer is active, the read loop sends no `data` message until the
\* receiver becomes active or 5 s have passed; when no transfer activates,
\* the first chunk that arrives after the 5 s is displayed again.
C37_GraceWindow ==
    (gLast.at >= 0 /\ gLast.win.open /\ ~gLast.active) =>
        IF gLast.at <= gLast.win.start + GraceSeconds
        THEN gLast.out = <<>>
        ELSE gLast.out = gLast.shown

\* C37 witness: a chunk with displayable bytes came more than 5 s after the
\* signature that opened the window, no transfer having started, and was
\* sent on.
C37_Witness ==
    /\ gLast.at > gLast.win.start + GraceSeconds
    /\ gLast.win.open /\ ~gLast.active
    /\ gLast.out # <<>>
    /\ gChunks = MaxGraceChunks


----------------------------------------------------------------------------
(* Claims about the delivery of withheld preamble bytes (SpecPreamble)     *)

\* a is a prefix of b.
IsPrefixOf(a, b) == Len(a) <= Len(b) /\ SubSeq(b, 1, Len(a)) = a

\* The bytes withheld before a step are withheld after it, or the step has
\* sent them on.
C35_Step ==
    Len(pState.buf) > 0 =>
        \/ IsPrefixOf(pState.buf, pState'.buf)
        \/ (pSent'.send /\ IsPrefixOf(pState.buf, pSent'.data))

\* C35: every byte withheld in the legacy preamble buffer is delivered to
\* the browser in the end; no step, a charset change among them, discards
\* withheld bytes.
C35_WithheldNeverDiscarded == [][C35_Step]_vars


----------------------------------------------------------------------------
(* Claims about the keepalive goroutine (SpecKeepalive)                    *)

\* C36: after disconnect has run and the WebSocket handler has returned,
\* the keepalive goroutine terminates in the end, whatever it was doing when
\* disconnect signalled c.done: it is never left without a step to take.
C36_KeepaliveEnds ==
    (kaHandler = "returned" /\ kaState # "done") => ENABLED KeepaliveStep


----------------------------------------------------------------------------
(* Claims about telnet sequences cut by a read (SpecTelnet)                *)

\* C39: an IAC sequence cut by the end of a read is decoded like the uncut
\* sequence: the clean bytes of the two reads together are those of the
\* whole, so that an escaped IAC IAC cut in the middle gives one 0xFF and
\* the bytes after it are not taken for a telnet command.
C39_SplitDecodesAlike ==
    tPhase = "split" =>
        tRes.clean = processTelnetData(tWire, TelnetView(tCs)).clean


----------------------------------------------------------------------------
(* Claims about carriage returns cut by a read (SpecLegacy)                *)

\* The last two chunks came under one PETSCII charset, the first ends in
\* 0x0D and the second starts with 0x0A or 0x0D.
CRCutByRead ==
    /\ lCalls = MaxLegacyCalls
    /\ lPrev.before \in {"PETSCIIU", "PETSCIIL"}
    /\ lBefore = lPrev.before
    /\ Len(lPrev.data) > 0 /\ lPrev.data[Len(lPrev.data)] = CR
    /\ lData[1] \in {LF, CR}

\* C40: the PETSCII carriage-return handling does not depend on chunking:
\* a 0x0D at the end of one chunk followed by 0x0A or 0x0D at the start of
\* the next gives the output the same bytes give as a single chunk.
C40_CRAcrossChunks ==
    CRCutByRead =>
        lPrev.ctl \o lRes.ctl
            = translatePETSCIIToANSI(lPrev.data \o lData, lPrev.before).out

=============================================================================
